---- MODULE Spec2Model ----
(***************************************************************************)
(* Model of the codex MCP server core (codex-rs/mcp-server).               *)
(*                                                                         *)
(* Spec          conversation subscriptions (fan-out tasks) and interrupt  *)
(*               coordination over the outbound multiplexer.               *)
(* SpecApproval  approval round trips: server requests, client replies,    *)
(*               detached waiters (SpecApprovalFair adds the scheduling).  *)
(* SpecRouter    the request router alone.                                 *)
(* SpecAux       the auxiliary-agent manager (aux_agents.rs).              *)
(* SpecCancel    codex tool sessions and cancelled notifications.          *)
(* SpecLogin     ChatGPT logins, their servers and watcher tasks.          *)
(* SpecArchive   archiveConversation: path checks, shutdown wait, move.    *)
(* SpecTools     the tool catalog under every option setting.              *)
(* SpecListing   listConversations and the summaries of rollout heads.     *)
(*                                                                         *)
(* The conversation engine is an external collaborator: submit(op) is      *)
(* recorded in `submissions`, next_event() pops the head of `stream[c]`    *)
(* (each event is delivered to exactly one caller).                        *)
(***************************************************************************)
EXTENDS Integers, Sequences, FiniteSets, TLC

\* ------------------------------------------------------------------ bounds
\* conversations the engine may open
MaxConvs == 1
\* inbound requests other than newConversation and resumeConversation
MaxReq == 3
\* events the engine produces, over all conversations
MaxEvents == 2
\* subscriptions (addConversationListener successes)
MaxSubs == 2
\* largest configured max_aux_agents
MaxAuxAgents == 2
\* child processes launched over a run
MaxSpawns == 3
\* inbound auxiliary-agent tool calls
MaxAuxReq == 4
\* inbound cancelled notifications
MaxCancels == 2
\* ChatGPT logins started over a run
MaxLogins == 2
\* listConversations calls over a run
MaxListings == 1
\* lines in the head of a rollout file
MaxHead == 3
\* conversations resumed from a rollout file
MaxResumes == 1

\* ------------------------------------------------------------------ state
VARIABLES
    expose_all_tools,        \* McpServerOpts.expose_all_tools
    convs,                   \* conversations held by the ConversationManager
    stream,                  \* per conversation: events not yet taken by next_event()
    nextEvent,               \* engine: id of the next event
    submissions,             \* ops submitted to the engine, in order
    requests,                \* inbound requests handled so far; index = request id
    conversation_listeners,  \* CodexMessageProcessor.conversation_listeners (keys)
    task,                    \* per subscription: the fan-out task
    pending_interrupts,      \* CodexMessageProcessor.pending_interrupts
    outbox,                  \* every frame enqueued on the outgoing channel, in order
    next_request_id,         \* OutgoingMessageSender: next server-initiated id
    callbacks,               \* OutgoingMessageSender: ids with a stored reply channel
    waiter,                  \* per server-initiated id: the detached approval task
    inboundClosed,           \* stdin reached end-of-stream, processor loop ended
    errorsSeen,              \* ids of inbound error frames that hit an outstanding request
    handled,                 \* events whose fan-out iteration has completed
    max_agents,              \* MessageProcessor.max_aux_agents (0: None or Some(0))
    aux_manager,             \* MessageProcessor.aux_agents is Some
    agents,                  \* AuxAgentManagerInner.agents (keys)
    map_locked,              \* the agents mutex is held across an await (stop_agent)
    child,                   \* per agent id: the child process
    child_lock,              \* per agent id: holder of the Arc<Mutex<Child>>
    completion,              \* per agent id: position of the completion task
    readers,                 \* per agent id: the stdout/stderr reader tasks
    nextAgent,               \* agent ids minted so far + 1
    aux_pc,                  \* the processor inside an auxiliary-agent tool call
    list_result,             \* summaries returned by the last list_agents
    initialized,             \* MessageProcessor.initialized
    user_agent_suffix,       \* USER_AGENT_SUFFIX: "name; version" of the client
    running_requests,        \* running_requests_id_to_codex_uuid (0: no entry)
    tool_session,            \* per request id: the spawned codex tool session task
    cancelled_seen,          \* request ids of the cancelled notifications handled
    active_login,            \* CodexMessageProcessor.active_login (login_id, 0: None)
    login_server,            \* per login id: the login server
    login_watcher,           \* per login id: position of the spawned watcher task
    nextLogin,               \* login ids minted so far + 1
    files,                   \* the files on disk under codex_home (canonical paths)
    archive,                 \* the processor inside archive_conversation_internal
    tools_listed,            \* the tool names of each tools/list result sent
    conversations_listed,    \* per listConversations call: the rollout head read and the items sent
    stdout_writer            \* the stdout writer task: frames written, and whether it runs

convVars == <<expose_all_tools, convs, stream, nextEvent, submissions, requests,
              conversation_listeners, task, pending_interrupts, outbox,
              next_request_id, callbacks, waiter, inboundClosed, errorsSeen, handled>>

auxVars == <<max_agents, aux_manager, agents, map_locked, child, child_lock, completion,
             readers, nextAgent, aux_pc, list_result>>

loginVars == <<active_login, login_server, login_watcher, nextLogin>>

archiveVars == <<files, archive>>

\* what the listing requests have returned
catalogVars == <<tools_listed, conversations_listed>>

sessionVars == <<initialized, user_agent_suffix, running_requests, tool_session,
                 cancelled_seen, loginVars, archiveVars, catalogVars, stdout_writer>>

\* the conversation variables other than requests and outbox
convRest == <<expose_all_tools, convs, stream, nextEvent, submissions,
              conversation_listeners, task, pending_interrupts, next_request_id,
              callbacks, waiter, inboundClosed, errorsSeen, handled>>

vars == <<convVars, auxVars, sessionVars>>

ConvIds == 1..MaxConvs
\* the ids of the conversations resumed from a rollout file
ResumedIds == (MaxConvs + 1)..(MaxConvs + MaxResumes)
SubIds == 1..MaxSubs
OutIds == 1..MaxEvents
AgentIds == 1..MaxSpawns
\* ids the client gives its requests
ReqIds == 1..(MaxReq + MaxConvs)
LoginIds == 1..MaxLogins

\* ------------------------------------------------------------------ values
ApprovalMsgs == {"ApplyPatchApprovalRequest", "ExecApprovalRequest"}
EventMsgs == ApprovalMsgs \cup {"TurnAborted", "TaskComplete"}
Reasons == {"interrupted", "replaced"}
Decisions == {"approved", "approved_for_session", "denied", "abort"}
\* what a client may put in the result of a reply
ReplyValues == Decisions \cup {"malformed"}

\* clientInfo of an initialize request, as "name; version"
ClientInfos == {"editor; 1", "agent; 2"}

StubMethods == {"resources/list", "prompts/list", "logging/setLevel", "completion/complete"}

NoEvent == [id |-> 0, msg |-> "none", reason |-> "none", conv |-> 0]
NoWaiter == [kind |-> "none", event_id |-> 0, conv |-> 0, chan |-> "none", value |-> "none"]
NoTask == [conv |-> 0, pc |-> "none", ev |-> NoEvent, cancel |-> FALSE, respond |-> 0]
Idle == [op |-> "idle", id |-> 0, agent |-> 0, entries |-> {}, summaries |-> {}]

\* a sequence without its last element, and that element
Front(seq) == SubSeq(seq, 1, Len(seq) - 1)
Last(seq) == seq[Len(seq)]

\* ------------------------------------------------------------------ paths
\* A path is a sequence of components and a component a sequence of pieces of
\* text; a file name ends with a suffix when its last pieces are the suffix's.
Dir(name) == <<name>>
\* the name the recorder gives the rollout file of conversation c
RolloutName(c) == <<"rollout-", ToString(c), ".jsonl">>
ParentDir == <<"..">>

\* config.codex_home and its subdirectories
codex_home == <<Dir("home")>>
SESSIONS_SUBDIR == Dir("sessions")
ARCHIVED_SESSIONS_SUBDIR == Dir("archived_sessions")
OtherDir == codex_home \o <<Dir("other")>>
\* a symbolic link inside the sessions directory that leads out of it
SessionsLink == codex_home \o <<SESSIONS_SUBDIR, Dir("link")>>

Directories ==
    {<<>>, codex_home, codex_home \o <<SESSIONS_SUBDIR>>, OtherDir}

\* the rollout files on disk when the server starts: those of conversation 1
\* and of another conversation in the sessions directory, and a file with the
\* name of conversation 1's rollout outside it
InitialFiles ==
    {codex_home \o <<SESSIONS_SUBDIR, RolloutName(1)>>,
     codex_home \o <<SESSIONS_SUBDIR, RolloutName(MaxConvs + 1)>>,
     OtherDir \o <<RolloutName(1)>>}

\* the rollout_path values a client sends with archiveConversation
RolloutPaths ==
    InitialFiles \cup
    {codex_home \o <<SESSIONS_SUBDIR, ParentDir, Dir("other"), RolloutName(1)>>,
     SessionsLink \o <<RolloutName(1)>>,
     codex_home \o <<SESSIONS_SUBDIR, ParentDir, SESSIONS_SUBDIR, RolloutName(1)>>,
     codex_home \o <<SESSIONS_SUBDIR, Dir("missing.jsonl")>>,
     codex_home \o <<SESSIONS_SUBDIR>>}

NotArchiving ==
    [op |-> "idle", id |-> 0, conv |-> 0, path |-> <<>>, listener |-> "none",
     engine |-> "none"]

\* The call_id of an approval event is a field of the event message, distinct
\* from Event.id: call ids are drawn from a range disjoint from the event ids.
CallId(ev) == ev.id + MaxEvents

\* ------------------------------------------------------------------ frames
\* kind/id/method/conv and the payload (tag, n, reason) are what goes on the
\* wire; ev and sub record the event and the fan-out task that produced the
\* frame (0 for a frame the processor produced).
Frame(kind, id, method, conv, tag, n, reason, ev, sub) ==
    [kind |-> kind, id |-> id, method |-> method, conv |-> conv,
     tag |-> tag, n |-> n, reason |-> reason, ev |-> ev, sub |-> sub]

\* OutgoingMessageSender::send_response
ResponseFrame(id, tag, n) == Frame("response", id, "", 0, tag, n, "none", 0, 0)
\* OutgoingMessageSender::send_error
ErrorFrame(id, code) == Frame("error", id, "", 0, code, 0, "none", 0, 0)
\* CallToolResult with is_error = Some(true), sent as a response
ToolErrorFrame(id) == Frame("response", id, "", 0, "tool_error", 0, "none", 0, 0)

IsReply(f) == f.kind \in {"response", "error"}

\* ------------------------------------------------------------------ engine
Submission(conv, op, id, decision) ==
    [conv |-> conv, op |-> op, id |-> id, decision |-> decision]

Init ==
    /\ expose_all_tools \in BOOLEAN
    /\ convs = {}
    /\ stream = [c \in ConvIds \cup ResumedIds |-> <<>>]
    /\ nextEvent = 1
    /\ submissions = <<>>
    /\ requests = <<>>
    /\ conversation_listeners = {}
    /\ task = [s \in SubIds |-> NoTask]
    /\ pending_interrupts = [c \in ConvIds \cup ResumedIds |-> <<>>]
    /\ outbox = <<>>
    /\ next_request_id = 1
    /\ callbacks = {}
    /\ waiter = [k \in OutIds |-> NoWaiter]
    /\ inboundClosed = FALSE
    /\ errorsSeen = {}
    /\ handled = {}
    /\ max_agents \in 0..MaxAuxAgents
    /\ aux_manager \in (IF max_agents = 0 THEN {FALSE} ELSE BOOLEAN)
    /\ agents = {}
    /\ map_locked = FALSE
    /\ child = [a \in AgentIds |-> "none"]
    /\ child_lock = [a \in AgentIds |-> "free"]
    /\ completion = [a \in AgentIds |-> "none"]
    /\ readers = [a \in AgentIds |-> "none"]
    /\ nextAgent = 1
    /\ aux_pc = Idle
    /\ list_result = {}
    /\ initialized = FALSE
    /\ user_agent_suffix = "none"
    /\ running_requests = [r \in ReqIds |-> 0]
    /\ tool_session = [r \in ReqIds |-> "none"]
    /\ cancelled_seen = <<>>
    /\ active_login = 0
    /\ login_server = [l \in LoginIds |-> "none"]
    /\ login_watcher = [l \in LoginIds |-> "none"]
    /\ nextLogin = 1
    /\ files = InitialFiles
    /\ archive = NotArchiving
    /\ tools_listed = <<>>
    /\ conversations_listed = <<>>
    /\ stdout_writer = [written |-> 0, state |-> "running"]

\* ------------------------------------------------------ inbound requests
\* The processor task handles one inbound frame at a time (lib.rs run_main);
\* the client mints request ids 1, 2, ...
\* Variant: frames are dispatched without waiting for the handler before.
ProcessorIdle_Always == TRUE

\* the processor loop is between two frames: no handler is suspended at an
\* await (lib.rs run_main awaits each handler before the next recv)
ProcessorIdle ==
    /\ aux_pc.op = "idle"
    /\ archive.op = "idle"
    /\ \A s \in SubIds : task[s].respond = 0

NewCount == Cardinality({i \in DOMAIN requests : requests[i] = "newConversation"})
ResumeCount == Cardinality({i \in DOMAIN requests : requests[i] = "resumeConversation"})
CanRequest ==
    /\ ~inboundClosed
    /\ ProcessorIdle
    /\ Len(requests) - NewCount - ResumeCount < MaxReq
RequestId == Len(requests) + 1
Handle(method) == requests' = Append(requests, method)

\* tool_catalog::CODE_EDITING_TOOL_NAMES
CODE_EDITING_TOOL_NAMES ==
    <<"reply", "codex", "codex-reply", "codex.newConversation", "codex.sendUserMessage",
      "codex.sendUserTurn", "codex.execCommand", "codex.gitDiffToRemote">>

is_code_editing_tool(name) ==
    \E i \in DOMAIN CODE_EDITING_TOOL_NAMES : CODE_EDITING_TOOL_NAMES[i] = name

\* ------------------------------------------------------ tool catalog
\* the names of tool_catalog::CODE_EDITING_ACTIONS
CODE_EDITING_ACTIONS ==
    <<"codex.newConversation", "codex.sendUserMessage", "codex.sendUserTurn",
      "codex.execCommand", "codex.gitDiffToRemote">>

\* the names of tool_catalog::ADMIN_ACTIONS
ADMIN_ACTIONS ==
    <<"codex.listConversations", "codex.resumeConversation", "codex.archiveConversation",
      "codex.interruptConversation", "codex.loginApiKey", "codex.loginChatGpt",
      "codex.cancelLoginChatGpt", "codex.logoutChatGpt", "codex.getAuthStatus",
      "codex.getUserSavedConfig", "codex.setDefaultModel", "codex.getUserAgent",
      "codex.userInfo">>

\* the names of tool_catalog::AUX_TOOLS
AUX_TOOLS == <<"codex.spawnAuxAgent", "codex.stopAuxAgent", "codex.listAuxAgents">>

Contains(names, name) == \E i \in DOMAIN names : names[i] = name

\* dedupe_preserving_order: the first occurrence of each name is kept
RECURSIVE dedupe_preserving_order(_)
dedupe_preserving_order(names) ==
    IF names = <<>> THEN <<>>
    ELSE LET kept == dedupe_preserving_order(Front(names)) IN
         IF Contains(kept, Last(names)) THEN kept ELSE Append(kept, Last(names))

\* Variant: the administrative names are pushed whatever the options.
AdminNames_Always(expose) == ADMIN_ACTIONS

\* compute_tool_names: `if opts.expose_all_tools { for (name, _) in ADMIN_ACTIONS ...`
AdminNames(expose) == IF expose THEN ADMIN_ACTIONS ELSE <<>>

\* Variant: the auxiliary names depend on max_aux_agents alone.
AuxNames_Ungated(expose, max) == IF max > 0 THEN AUX_TOOLS ELSE <<>>

\* Variant: the auxiliary names are never pushed.
AuxNames_Never(expose, max) == <<>>

\* compute_tool_names: inside the expose_all_tools block,
\* `if max_aux_agents.unwrap_or(0) > 0 { for (name, _) in AUX_TOOLS ...`
AuxNames(expose, max) == IF expose /\ max > 0 THEN AUX_TOOLS ELSE <<>>

\* compute_tool_names (max = 0 stands for None and for Some(0))
compute_tool_names(expose, max) ==
    dedupe_preserving_order(CODE_EDITING_TOOL_NAMES \o AdminNames(expose)
                               \o AuxNames(expose, max))

\* a tool descriptor: its name and the type of its input schema
Tool(name) == [name |-> name, type |-> "object"]
NoTool == [name |-> "", type |-> ""]

lookup_action_tool(name) ==
    IF Contains(CODE_EDITING_ACTIONS, name) THEN Tool(name) ELSE NoTool

\* Variant: the administrative tools have no descriptor.
lookup_admin_tool_None(name) == NoTool

lookup_admin_tool(name) ==
    IF Contains(ADMIN_ACTIONS, name) THEN Tool(name) ELSE NoTool

lookup_aux_tool(name, max) ==
    IF max = 0 THEN NoTool
    ELSE IF Contains(AUX_TOOLS, name) THEN Tool(name) ELSE NoTool

\* build_tool_by_name: `reply`, `codex` and `codex-reply` have their own
\* constructors; the others are looked up in the three tables in turn
build_tool_by_name(name, max) ==
    IF name \in {"reply", "codex", "codex-reply"} THEN Tool(name)
    ELSE IF lookup_action_tool(name) # NoTool THEN lookup_action_tool(name)
    ELSE IF lookup_admin_tool(name) # NoTool THEN lookup_admin_tool(name)
    ELSE lookup_aux_tool(name, max)

\* validate_tool_schema: the name and the schema type are not blank
validate_tool_schema(tool) == tool.name # "" /\ tool.type # ""

\* list_tools: the descriptors of the computed names, or an error when a name
\* comes twice, has no descriptor, or its descriptor is not valid
list_tools(expose, max) ==
    LET names == compute_tool_names(expose, max) IN
    IF \A i \in DOMAIN names :
          /\ ~Contains(SubSeq(names, 1, i - 1), names[i])
          /\ build_tool_by_name(names[i], max) # NoTool
          /\ validate_tool_schema(build_tool_by_name(names[i], max))
    THEN [ok |-> TRUE, tools |-> [i \in DOMAIN names |-> build_tool_by_name(names[i], max)]]
    ELSE [ok |-> FALSE, tools |-> <<>>]

\* handle_list_tools: the descriptors are sent as the result, a catalog error
\* as an InvalidRequest error
ListTools ==
    /\ CanRequest
    /\ Handle("tools/list")
    /\ LET result == list_tools(expose_all_tools, max_agents) IN
       IF result.ok
       THEN /\ outbox' = Append(outbox, ResponseFrame(RequestId, "tools", Len(result.tools)))
            /\ tools_listed' = Append(tools_listed,
                                      [i \in DOMAIN result.tools |-> result.tools[i].name])
       ELSE /\ outbox' = Append(outbox, ErrorFrame(RequestId, "InvalidRequest"))
            /\ UNCHANGED tools_listed
    /\ UNCHANGED <<initialized, user_agent_suffix, running_requests, tool_session,
                   cancelled_seen, loginVars, archiveVars, conversations_listed,
                   stdout_writer>>
    /\ UNCHANGED <<convRest, auxVars>>

\* every tool name a client may call
ToolNames ==
    {CODE_EDITING_TOOL_NAMES[i] : i \in DOMAIN CODE_EDITING_TOOL_NAMES}
       \cup {ADMIN_ACTIONS[i] : i \in DOMAIN ADMIN_ACTIONS}
       \cup {AUX_TOOLS[i] : i \in DOMAIN AUX_TOOLS}
       \cup {"codex.noSuchTool"}

\* handle_call_tool, last arm: a tool that is neither on the code-editing
\* allowlist nor admitted by expose_all_tools is answered "Unknown tool"
CallToolUnknown(name) ==
    /\ CanRequest
    /\ ~is_code_editing_tool(name)
    /\ ~expose_all_tools
    /\ Handle("tools/call:" \o name)
    /\ outbox' = Append(outbox, ToolErrorFrame(RequestId))
    /\ UNCHANGED <<convRest, auxVars, sessionVars>>

\* ------------------------------------------------------ conversation listing
\* A text is a sequence of pieces; SP is white space and USER_MESSAGE_BEGIN
\* the marker of codex_protocol.
SP == " "
USER_MESSAGE_BEGIN == "## My request for Codex:"

\* the texts found in rollout heads
Texts ==
    {<<"<user_instructions>", "rules", "</user_instructions>">>,
     <<"<environment_context>", "cwd", "</environment_context>">>,
     <<"Count">>,
     <<SP, "hello", SP>>,
     <<"context", SP, USER_MESSAGE_BEGIN, SP, "Count", SP, "to", SP>>,
     <<USER_MESSAGE_BEGIN, "a", USER_MESSAGE_BEGIN, "b">>,
     <<"tail", USER_MESSAGE_BEGIN>>}

\* ContentItem
InputText(text) == [type |-> "input_text", text |-> text]
OutputText(text) == [type |-> "output_text", text |-> text]

\* the content of the messages found in rollout heads
Contents ==
    {<<InputText(t)>> : t \in Texts}
       \cup {<<OutputText(<<"done">>)>>, <<>>,
             <<InputText(<<"<user_instructions>", "rules", "</user_instructions>">>),
               InputText(<<"second">>)>>,
             <<OutputText(<<"done">>), InputText(<<"third">>)>>}

\* a line of a rollout head as JSON: the session meta, a response item, or
\* something that is neither
SessionMetaLine == [type |-> "session_meta", role |-> "", content |-> <<>>]
OtherLine == [type |-> "other", role |-> "", content |-> <<>>]
ReasoningLine == [type |-> "reasoning", role |-> "", content |-> <<>>]
Message(role, content) == [type |-> "message", role |-> role, content |-> content]

HeadLines ==
    {SessionMetaLine, OtherLine, ReasoningLine}
       \cup {Message("user", c) : c \in Contents}
       \cup {Message("assistant", <<OutputText(<<"done">>)>>),
             Message("assistant", <<InputText(<<"Count">>)>>)}

\* the heads of the rollout files: up to MaxHead lines, the first of any
\* kind, the later ones response items
Heads ==
    UNION {[1..n -> HeadLines] : n \in 0..1}
       \cup {h \in UNION {[1..n -> HeadLines] : n \in 2..MaxHead} :
                \A i \in 2..Len(h) : h[i].type \in {"message", "reasoning"}}

\* InputMessageKind::from((role, text)): a text wrapped in the user
\* instructions or the environment context tags is of that kind, any other
\* text is Plain
InputMessageKind(role, text) ==
    IF text # <<>> /\ Head(text) = "<user_instructions>" /\ Last(text) = "</user_instructions>"
    THEN "UserInstructions"
    ELSE IF text # <<>> /\ Head(text) = "<environment_context>"
                        /\ Last(text) = "</environment_context>"
    THEN "EnvironmentContext"
    ELSE "Plain"

NoText == <<"">>

\* Variant: every input text is taken, whatever its kind.
PlainInput_AnyKind(item) == item.type = "input_text"

\* the inner find_map: `ContentItem::InputText { text }` whose kind, computed
\* as for a user message, is Plain
PlainInput(item) ==
    /\ item.type = "input_text"
    /\ InputMessageKind("user", item.text) = "Plain"

\* content.into_iter().find_map(..): the first plain input text of a message
RECURSIVE FirstPlainInContent(_)
FirstPlainInContent(content) ==
    IF content = <<>> THEN NoText
    ELSE IF PlainInput(Head(content)) THEN Head(content).text
    ELSE FirstPlainInContent(Tail(content))

\* head.iter().filter_map(from_value::<ResponseItem>).find_map(..): the first
\* line that parses as a message and holds a plain input text
RECURSIVE FirstPlainInHead(_)
FirstPlainInHead(head) ==
    IF head = <<>> THEN NoText
    ELSE IF Head(head).type = "message" /\ FirstPlainInContent(Head(head).content) # NoText
    THEN FirstPlainInContent(Head(head).content)
    ELSE FirstPlainInHead(Tail(head))

\* str::find: the index of the first occurrence, 0 for None
RECURSIVE find(_, _)
find(text, piece) ==
    IF text = <<>> THEN 0
    ELSE IF Head(text) = piece THEN 1
    ELSE IF find(Tail(text), piece) = 0 THEN 0
    ELSE 1 + find(Tail(text), piece)

\* str::trim
RECURSIVE trim(_)
trim(text) ==
    IF text = <<>> THEN text
    ELSE IF Head(text) = SP THEN trim(Tail(text))
    ELSE IF Last(text) = SP THEN trim(Front(text))
    ELSE text

\* `preview[idx + USER_MESSAGE_BEGIN.len()..].trim()`
AfterMarker(text, idx) == trim(SubSeq(text, idx + 1, Len(text)))

NoSummary == [some |-> FALSE, preview |-> NoText]

\* extract_conversation_summary: None without a first line that is a valid
\* session meta or without a plain input text; else the summary with its preview
extract_conversation_summary(head) ==
    IF head = <<>> THEN NoSummary
    ELSE IF Head(head).type # "session_meta" THEN NoSummary
    ELSE IF FirstPlainInHead(head) = NoText THEN NoSummary
    ELSE LET preview == FirstPlainInHead(head)
             idx == find(preview, USER_MESSAGE_BEGIN) IN
         [some |-> TRUE,
          preview |-> IF idx # 0 THEN AfterMarker(preview, idx) ELSE preview]

\* list_conversations: the recorder lists a page of rollout files (an error
\* is InternalError); the items are the summaries that could be extracted
ListConversations(listOk, head) ==
    /\ CanRequest
    /\ Len(conversations_listed) < MaxListings
    /\ Handle("listConversations")
    /\ IF listOk
       THEN /\ outbox' = Append(outbox, ResponseFrame(RequestId, "conversations",
                                   IF extract_conversation_summary(head).some THEN 1 ELSE 0))
            /\ conversations_listed' =
                  Append(conversations_listed,
                         [head |-> head, item |-> extract_conversation_summary(head)])
       ELSE /\ outbox' = Append(outbox, ErrorFrame(RequestId, "InternalError"))
            /\ UNCHANGED conversations_listed
    /\ UNCHANGED <<initialized, user_agent_suffix, running_requests, tool_session,
                   cancelled_seen, loginVars, archiveVars, tools_listed,
                   stdout_writer>>
    /\ UNCHANGED <<convRest, auxVars>>

\* process_new_conversation: the engine opens a conversation or fails.
NewConversation(ok) ==
    /\ ~inboundClosed
    /\ ProcessorIdle
    /\ NewCount < MaxConvs
    /\ Handle("newConversation")
    /\ IF ok
       THEN /\ convs' = convs \cup {NewCount + 1}
            /\ outbox' = Append(outbox, ResponseFrame(RequestId, "ok", 0))
       ELSE /\ convs' = convs
            /\ outbox' = Append(outbox, ErrorFrame(RequestId, "InternalError"))
    /\ UNCHANGED auxVars
    /\ UNCHANGED <<expose_all_tools, stream, nextEvent, submissions, conversation_listeners,
                   task, pending_interrupts, next_request_id, callbacks, waiter,
                   inboundClosed, errorsSeen, handled>>
    /\ UNCHANGED sessionVars

\* handle_resume_conversation: overrides that give no configuration are an
\* InvalidRequest error, a rollout the manager cannot resume from an
\* InternalError; otherwise the conversation is held by the manager, its
\* SessionConfigured event is sent as a notification and then the response.
ResumeConversation(configOk, ok) ==
    /\ ~inboundClosed
    /\ ProcessorIdle
    /\ ResumeCount < MaxResumes
    /\ Handle("resumeConversation")
    /\ IF ~configOk
       THEN /\ outbox' = Append(outbox, ErrorFrame(RequestId, "InvalidRequest"))
            /\ convs' = convs
       ELSE IF ~ok
       THEN /\ outbox' = Append(outbox, ErrorFrame(RequestId, "InternalError"))
            /\ convs' = convs
       ELSE /\ convs' = convs \cup {MaxConvs + ResumeCount + 1}
            /\ outbox' = outbox \o
                  <<Frame("notification", 0, "SessionConfigured", 0, "event", 0,
                          "none", 0, 0),
                    ResponseFrame(RequestId, "resumed", MaxConvs + ResumeCount + 1)>>
    /\ UNCHANGED auxVars
    /\ UNCHANGED <<expose_all_tools, stream, nextEvent, submissions, conversation_listeners,
                   task, pending_interrupts, next_request_id, callbacks, waiter,
                   inboundClosed, errorsSeen, handled>>
    /\ UNCHANGED sessionVars

\* send_user_message / send_user_message_internal
SendUserMessage(c) ==
    /\ CanRequest
    /\ Handle("sendUserMessage")
    /\ IF c \in convs
       THEN /\ submissions' = Append(submissions, Submission(c, "UserInput", 0, "none"))
            /\ outbox' = Append(outbox, ResponseFrame(RequestId, "ok", 0))
       ELSE /\ submissions' = submissions
            /\ outbox' = Append(outbox, ErrorFrame(RequestId, "InvalidRequest"))
    /\ UNCHANGED auxVars
    /\ UNCHANGED <<expose_all_tools, convs, stream, nextEvent, conversation_listeners, task,
                   pending_interrupts, next_request_id, callbacks, waiter, inboundClosed,
                   errorsSeen, handled>>
    /\ UNCHANGED sessionVars

\* schedule_interrupt: Ok pushes the pending entry and submits Interrupt;
\* Err (conversation not found) changes nothing.
ScheduleOk(c) == c \in convs
ScheduleInterrupt(c, pending) ==
    /\ pending_interrupts' =
           [pending_interrupts EXCEPT ![c] = Append(pending_interrupts[c], pending)]
    /\ submissions' = Append(submissions, Submission(c, "Interrupt", 0, "none"))

\* interrupt_conversation: the response waits for TurnAborted.
InterruptConversation(c) ==
    /\ CanRequest
    /\ Handle("interruptConversation")
    /\ IF ScheduleOk(c)
       THEN /\ ScheduleInterrupt(c, [tag |-> "JsonRpc", id |-> RequestId])
            /\ outbox' = outbox
       ELSE /\ outbox' = Append(outbox, ErrorFrame(RequestId, "InvalidRequest"))
            /\ UNCHANGED <<pending_interrupts, submissions>>
    /\ UNCHANGED auxVars
    /\ UNCHANGED <<expose_all_tools, convs, stream, nextEvent, conversation_listeners, task,
                   next_request_id, callbacks, waiter, inboundClosed, errorsSeen, handled>>
    /\ UNCHANGED sessionVars

\* handle_call_tool with name "codex.interruptConversation", then
\* handle_extended_tool_call: argsOk is whether the arguments parse.
CallToolInterrupt(c, argsOk) ==
    /\ CanRequest
    /\ Handle("tools/call:codex.interruptConversation")
    /\ IF (is_code_editing_tool("codex.interruptConversation") \/ expose_all_tools)
           /\ argsOk /\ ScheduleOk(c)
       THEN /\ ScheduleInterrupt(c, [tag |-> "Tool", id |-> RequestId])
            /\ outbox' = outbox
       ELSE /\ outbox' = Append(outbox, ToolErrorFrame(RequestId))
            /\ UNCHANGED <<pending_interrupts, submissions>>
    /\ UNCHANGED auxVars
    /\ UNCHANGED <<expose_all_tools, convs, stream, nextEvent, conversation_listeners, task,
                   next_request_id, callbacks, waiter, inboundClosed, errorsSeen, handled>>
    /\ UNCHANGED sessionVars

\* add_conversation_listener up to tokio::spawn: mints a subscription id,
\* stores the cancel sender and spawns the fan-out task.  The task starts to
\* run on the runtime's workers at once; the handler's send_response comes
\* after the spawn (add_listener_respond).
AddConversationListener(c) ==
    /\ CanRequest
    /\ Handle("addConversationListener")
    /\ IF c \in convs
       THEN /\ Cardinality({s \in SubIds : task[s].pc # "none"}) < MaxSubs
            /\ LET s == Cardinality({t \in SubIds : task[t].pc # "none"}) + 1 IN
               /\ conversation_listeners' = conversation_listeners \cup {s}
               /\ task' = [task EXCEPT ![s] = [conv |-> c, pc |-> "select",
                                               ev |-> NoEvent, cancel |-> FALSE,
                                               respond |-> RequestId]]
               /\ outbox' = outbox
       ELSE /\ outbox' = Append(outbox, ErrorFrame(RequestId, "InvalidRequest"))
            /\ UNCHANGED <<conversation_listeners, task>>
    /\ UNCHANGED auxVars
    /\ UNCHANGED <<expose_all_tools, convs, stream, nextEvent, submissions, pending_interrupts,
                   next_request_id, callbacks, waiter, inboundClosed, errorsSeen, handled>>
    /\ UNCHANGED sessionVars

\* add_conversation_listener after the spawn: the response with the
\* subscription id
add_listener_respond(s) ==
    /\ task[s].respond # 0
    /\ outbox' = Append(outbox, ResponseFrame(task[s].respond, "subscription", s))
    /\ task' = [task EXCEPT ![s].respond = 0]
    /\ UNCHANGED auxVars
    /\ UNCHANGED <<expose_all_tools, convs, stream, nextEvent, submissions, requests,
                   conversation_listeners, pending_interrupts, next_request_id,
                   callbacks, waiter, inboundClosed, errorsSeen, handled>>
    /\ UNCHANGED sessionVars

\* remove_conversation_listener: signals the task and responds.
RemoveConversationListener(s) ==
    /\ CanRequest
    /\ Handle("removeConversationListener")
    /\ IF s \in conversation_listeners
       THEN /\ conversation_listeners' = conversation_listeners \ {s}
            /\ task' = [task EXCEPT ![s].cancel = TRUE]
            /\ outbox' = Append(outbox, ResponseFrame(RequestId, "removed", s))
       ELSE /\ outbox' = Append(outbox, ErrorFrame(RequestId, "InvalidRequest"))
            /\ UNCHANGED <<conversation_listeners, task>>
    /\ UNCHANGED auxVars
    /\ UNCHANGED <<expose_all_tools, convs, stream, nextEvent, submissions, pending_interrupts,
                   next_request_id, callbacks, waiter, inboundClosed, errorsSeen, handled>>
    /\ UNCHANGED sessionVars

\* handle_ping
Ping ==
    /\ CanRequest
    /\ Handle("ping")
    /\ outbox' = Append(outbox, ResponseFrame(RequestId, "ok", 0))
    /\ UNCHANGED auxVars
    /\ UNCHANGED <<expose_all_tools, convs, stream, nextEvent, submissions,
                   conversation_listeners, task, pending_interrupts, next_request_id,
                   callbacks, waiter, inboundClosed, errorsSeen, handled>>
    /\ UNCHANGED sessionVars

\* handle_list_resources .. handle_get_prompt, handle_set_level, handle_complete:
\* the frames these handlers enqueue.
StubFrames(id, method) == <<>>

StubRequest(method) ==
    /\ CanRequest
    /\ Handle(method)
    /\ outbox' = outbox \o StubFrames(RequestId, method)
    /\ UNCHANGED auxVars
    /\ UNCHANGED <<expose_all_tools, convs, stream, nextEvent, submissions,
                   conversation_listeners, task, pending_interrupts, next_request_id,
                   callbacks, waiter, inboundClosed, errorsSeen, handled>>
    /\ UNCHANGED sessionVars

\* Variant: the flag is not consulted.
AlreadyInitialized_Never(flag) == FALSE

\* handle_initialize: `if self.initialized`
AlreadyInitialized(flag) == flag

\* handle_initialize: a second call is an InvalidRequest error; the first
\* records the client (unless the USER_AGENT_SUFFIX mutex is poisoned), sets
\* the flag and responds.
Initialize(info, lockOk) ==
    /\ CanRequest
    /\ Handle("initialize")
    /\ IF AlreadyInitialized(initialized)
       THEN /\ outbox' = Append(outbox, ErrorFrame(RequestId, "InvalidRequest"))
            /\ UNCHANGED <<initialized, user_agent_suffix>>
       ELSE /\ user_agent_suffix' = IF lockOk THEN info ELSE user_agent_suffix
            /\ initialized' = TRUE
            /\ outbox' = Append(outbox, ResponseFrame(RequestId, "initialized", 0))
    /\ UNCHANGED <<running_requests, tool_session, cancelled_seen>>
    /\ UNCHANGED <<loginVars, archiveVars, catalogVars, stdout_writer>>
    /\ UNCHANGED <<convRest, auxVars>>

\* process_request for a method that is neither a ClientRequest nor an
\* McpClientRequest: the conversion fails, a warning is logged, nothing is sent.
UnknownMethodFrames(id) == <<>>

UnknownMethod ==
    /\ CanRequest
    /\ Handle("unknown/method")
    /\ outbox' = outbox \o UnknownMethodFrames(RequestId)
    /\ UNCHANGED <<convRest, auxVars, sessionVars>>

\* ------------------------------------------------ codex tool sessions
\* handle_tool_call_codex: arguments that do not parse into a configuration
\* are answered with a tool error; otherwise the session task is spawned.
CallToolCodex(argsOk) ==
    /\ CanRequest
    /\ Handle("tools/call:codex")
    /\ IF argsOk
       THEN /\ tool_session' = [tool_session EXCEPT ![RequestId] = "start"]
            /\ outbox' = outbox
       ELSE /\ outbox' = Append(outbox, ToolErrorFrame(RequestId))
            /\ UNCHANGED tool_session
    /\ UNCHANGED <<initialized, user_agent_suffix, running_requests, cancelled_seen>>
    /\ UNCHANGED <<loginVars, archiveVars, catalogVars, stdout_writer>>
    /\ UNCHANGED <<convRest, auxVars>>

\* run_codex_tool_session: the task opens its conversation and records
\* request id -> conversation id; a failure to open is the tool call's result.
ToolSessionStart(r, ok) ==
    /\ tool_session[r] = "start"
    /\ Cardinality(convs) + NewCount < MaxConvs \/ ~ok
    /\ IF ok
       THEN LET c == Cardinality(convs) + 1 IN
            /\ convs' = convs \cup {c}
            /\ running_requests' = [running_requests EXCEPT ![r] = c]
            /\ tool_session' = [tool_session EXCEPT ![r] = "running"]
            /\ outbox' = outbox
       ELSE /\ outbox' = Append(outbox, ToolErrorFrame(r))
            /\ tool_session' = [tool_session EXCEPT ![r] = "done"]
            /\ UNCHANGED <<convs, running_requests>>
    /\ UNCHANGED <<expose_all_tools, stream, nextEvent, submissions, requests,
                   conversation_listeners, task, pending_interrupts, next_request_id,
                   callbacks, waiter, inboundClosed, errorsSeen, handled>>
    /\ UNCHANGED <<initialized, user_agent_suffix, cancelled_seen>>
    /\ UNCHANGED <<loginVars, archiveVars, catalogVars, stdout_writer>>
    /\ UNCHANGED auxVars

\* Variant: the entry is kept after the interrupt was submitted.
CancelledEntries_Keep(map, r) == map

\* handle_cancelled_notification: `.remove(&request_id)`
CancelledEntries(map, r) == [map EXCEPT ![r] = 0]

\* handle_cancelled_notification: the request id is looked up, then the
\* conversation; Interrupt is submitted with the request id as submission id
\* and the entry removed.  Each failure is logged and ends the handler.
CancelledNotification(r, submitOk) ==
    /\ ~inboundClosed
    /\ ProcessorIdle
    /\ Len(cancelled_seen) < MaxCancels
    /\ cancelled_seen' = Append(cancelled_seen, r)
    /\ IF running_requests[r] # 0 /\ running_requests[r] \in convs /\ submitOk
       THEN /\ submissions' = Append(submissions,
                                     Submission(running_requests[r], "Interrupt", r, "none"))
            /\ running_requests' = CancelledEntries(running_requests, r)
       ELSE UNCHANGED <<submissions, running_requests>>
    /\ UNCHANGED <<expose_all_tools, convs, stream, nextEvent, requests,
                   conversation_listeners, task, pending_interrupts, outbox,
                   next_request_id, callbacks, waiter, inboundClosed, errorsSeen, handled>>
    /\ UNCHANGED <<initialized, user_agent_suffix, tool_session>>
    /\ UNCHANGED <<loginVars, archiveVars, catalogVars, stdout_writer>>
    /\ UNCHANGED auxVars

\* ------------------------------------------------------ archiving
\* the file system resolving a path: `..` steps to the parent, a symbolic
\* link is followed
RECURSIVE Resolve(_, _)
Resolve(done, rest) ==
    IF rest = <<>> THEN done
    ELSE IF Head(rest) = ParentDir
         THEN Resolve(IF done = <<>> THEN done ELSE Front(done), Tail(rest))
    ELSE IF Append(done, Head(rest)) = SessionsLink
         THEN Resolve(OtherDir, Tail(rest))
    ELSE Resolve(Append(done, Head(rest)), Tail(rest))

\* Variant: the path is taken as written.
canonicalize_AsWritten(disk, path) == path

\* tokio::fs::canonicalize: the resolved path of something that exists
\* (<<>>, the root, also stands for the error)
canonicalize(disk, path) ==
    IF Resolve(<<>>, path) \in disk \cup Directories THEN Resolve(<<>>, path) ELSE <<>>

\* Path::starts_with: component by component
starts_with(path, base) ==
    /\ Len(path) >= Len(base)
    /\ SubSeq(path, 1, Len(base)) = base

\* str::ends_with on the file name
ends_with(name, suffix) ==
    /\ Len(name) >= Len(suffix)
    /\ SubSeq(name, Len(name) - Len(suffix) + 1, Len(name)) = suffix

rollout_folder == codex_home \o <<SESSIONS_SUBDIR>>

\* format!("{conversation_id}.jsonl")
required_suffix(c) == <<ToString(c), ".jsonl">>

\* archive_conversation_internal, the three checks before anything is touched
ArchiveAccepts(disk, c, rollout_path) ==
    LET canonical_rollout_path == canonicalize(disk, rollout_path) IN
    /\ canonical_rollout_path # <<>>
    /\ starts_with(canonical_rollout_path, rollout_folder)
    /\ ends_with(Last(canonical_rollout_path), required_suffix(c))

\* archive_conversation: a rollout path that does not resolve inside the
\* sessions directory or is not named after the conversation is an
\* InvalidRequest error.  Otherwise the conversation is removed from the
\* manager; if it was there the ShutdownComplete listener is spawned.
ArchiveConversation(c, rollout_path) ==
    /\ CanRequest
    /\ Handle("archiveConversation")
    /\ IF ~ArchiveAccepts(files, c, rollout_path)
       THEN /\ outbox' = Append(outbox, ErrorFrame(RequestId, "InvalidRequest"))
            /\ UNCHANGED <<convs, archive>>
       ELSE /\ convs' = convs \ {c}
            /\ archive' = [op |-> IF c \in convs THEN "submit" ELSE "move",
                           id |-> RequestId, conv |-> c,
                           path |-> canonicalize(files, rollout_path),
                           listener |-> IF c \in convs THEN "running" ELSE "none",
                           engine |-> "none"]
            /\ UNCHANGED outbox
    /\ UNCHANGED <<expose_all_tools, stream, nextEvent, submissions,
                   conversation_listeners, task, pending_interrupts, next_request_id,
                   callbacks, waiter, inboundClosed, errorsSeen, handled>>
    /\ UNCHANGED <<initialized, user_agent_suffix, running_requests, tool_session,
                   cancelled_seen, loginVars, files, catalogVars, stdout_writer>>
    /\ UNCHANGED auxVars

\* conversation.submit(Op::Shutdown): on success the handler goes on to wait;
\* on an error it wakes the listener and goes on to the move
archive_submit(ok) ==
    /\ archive.op = "submit"
    /\ IF ok
       THEN /\ submissions' = Append(submissions,
                                     Submission(archive.conv, "Shutdown", 0, "none"))
            /\ archive' = [archive EXCEPT !.op = "wait", !.engine = "asked"]
       ELSE /\ archive' = [archive EXCEPT !.op = "move", !.listener = "notified"]
            /\ UNCHANGED submissions
    /\ UNCHANGED <<expose_all_tools, convs, stream, nextEvent, requests,
                   conversation_listeners, task, pending_interrupts, outbox,
                   next_request_id, callbacks, waiter, inboundClosed, errorsSeen, handled>>
    /\ UNCHANGED <<initialized, user_agent_suffix, running_requests, tool_session,
                   cancelled_seen, loginVars, files, catalogVars, stdout_writer>>
    /\ UNCHANGED auxVars

\* the engine answers Shutdown with a ShutdownComplete event
EngineShutdownComplete ==
    /\ archive.engine = "asked"
    /\ nextEvent <= MaxEvents
    /\ stream' = [stream EXCEPT ![archive.conv] =
                    Append(@, [id |-> nextEvent, msg |-> "ShutdownComplete",
                               reason |-> "none", conv |-> archive.conv])]
    /\ nextEvent' = nextEvent + 1
    /\ archive' = [archive EXCEPT !.engine = "completed"]
    /\ UNCHANGED <<expose_all_tools, convs, submissions, requests, conversation_listeners,
                   task, pending_interrupts, outbox, next_request_id, callbacks, waiter,
                   inboundClosed, errorsSeen, handled>>
    /\ UNCHANGED <<initialized, user_agent_suffix, running_requests, tool_session,
                   cancelled_seen, loginVars, files, catalogVars, stdout_writer>>
    /\ UNCHANGED auxVars

\* is_shutdown task, next_event branch: an event is taken off the stream; the
\* task ends on ShutdownComplete and loops on anything else
is_shutdown_next_event ==
    /\ archive.listener \in {"running", "notified"}
    /\ stream[archive.conv] # <<>>
    /\ stream' = [stream EXCEPT ![archive.conv] = Tail(@)]
    /\ archive' = IF Head(stream[archive.conv]).msg = "ShutdownComplete"
                  THEN [archive EXCEPT !.listener = "done"]
                  ELSE archive
    /\ UNCHANGED <<expose_all_tools, convs, nextEvent, submissions, requests,
                   conversation_listeners, task, pending_interrupts, outbox,
                   next_request_id, callbacks, waiter, inboundClosed, errorsSeen, handled>>
    /\ UNCHANGED <<initialized, user_agent_suffix, running_requests, tool_session,
                   cancelled_seen, loginVars, files, catalogVars, stdout_writer>>
    /\ UNCHANGED auxVars

\* is_shutdown task, notified branch
is_shutdown_notified ==
    /\ archive.listener = "notified"
    /\ archive' = [archive EXCEPT !.listener = "done"]
    /\ UNCHANGED <<convVars, auxVars>>
    /\ UNCHANGED <<initialized, user_agent_suffix, running_requests, tool_session,
                   cancelled_seen, loginVars, files, catalogVars, stdout_writer>>

\* Variant: the handler waits for the listener alone.
ShutdownWaitOver_NoCeiling(listener, elapsed) == listener = "done"

\* the select! after a successful submit: the listener task has finished, or
\* the 10 second sleep has
ShutdownWaitOver(listener, elapsed) == listener = "done" \/ elapsed

\* the wait ends; after the sleep the listener is woken (notify_one)
archive_wait(elapsed) ==
    /\ archive.op = "wait"
    /\ ShutdownWaitOver(archive.listener, elapsed)
    /\ archive' = [archive EXCEPT !.op = "move",
                                  !.listener = IF archive.listener = "done"
                                               THEN "done" ELSE "notified"]
    /\ UNCHANGED <<convVars, auxVars>>
    /\ UNCHANGED <<initialized, user_agent_suffix, running_requests, tool_session,
                   cancelled_seen, loginVars, files, catalogVars, stdout_writer>>

\* create_dir_all and rename into the archived sessions directory, then the
\* response; an I/O error is InternalError
archive_move(moveOk) ==
    /\ archive.op = "move"
    /\ IF moveOk
       THEN /\ files' = (files \ {archive.path}) \cup
                        {codex_home \o <<ARCHIVED_SESSIONS_SUBDIR, Last(archive.path)>>}
            /\ outbox' = Append(outbox, ResponseFrame(archive.id, "archived", 0))
       ELSE /\ outbox' = Append(outbox, ErrorFrame(archive.id, "InternalError"))
            /\ UNCHANGED files
    /\ archive' = [archive EXCEPT !.op = "idle"]
    /\ UNCHANGED <<convRest, requests, auxVars>>
    /\ UNCHANGED <<initialized, user_agent_suffix, running_requests, tool_session,
                   cancelled_seen, loginVars, catalogVars, stdout_writer>>

\* ------------------------------------------------------ ChatGPT login
LoginNotification(method, l, tag) ==
    Frame("notification", 0, method, 0, tag, l, "none", 0, 0)

\* Variant: the previous login is forgotten without being shut down.
DropExisting_Forget(servers, a) == servers

\* ActiveLogin::drop on the login taken out of active_login:
\* shutdown_handle.shutdown(), which stops a server that is still running.
DropExisting(servers, a) ==
    IF a # 0 /\ servers[a] = "running"
    THEN [servers EXCEPT ![a] = "shutdown"]
    ELSE servers

\* login_chatgpt: the login server is started (an error is InternalError); the
\* previous login, if any, is taken and dropped, the new one recorded, the
\* watcher spawned and the response sent.
LoginChatGpt(startOk) ==
    /\ CanRequest
    /\ nextLogin <= MaxLogins
    /\ Handle("loginChatGpt")
    /\ IF startOk
       THEN /\ login_server' = [DropExisting(login_server, active_login)
                                   EXCEPT ![nextLogin] = "running"]
            /\ active_login' = nextLogin
            /\ login_watcher' = [login_watcher EXCEPT ![nextLogin] = "waiting"]
            /\ nextLogin' = nextLogin + 1
            /\ outbox' = Append(outbox, ResponseFrame(RequestId, "login", nextLogin))
       ELSE /\ outbox' = Append(outbox, ErrorFrame(RequestId, "InternalError"))
            /\ UNCHANGED <<loginVars, archiveVars, catalogVars, stdout_writer>>
    /\ UNCHANGED <<initialized, user_agent_suffix, running_requests, tool_session,
                   cancelled_seen, archiveVars, catalogVars, stdout_writer>>
    /\ UNCHANGED <<convRest, auxVars>>

\* Variant: any id cancels the active login.
LoginMatches_Any(active, id) == TRUE

\* cancel_login_chatgpt_internal: `guard.as_ref().map(|l| l.login_id) == Some(login_id)`
LoginMatches(active, id) == active # 0 /\ active = id

CancelLoginMethod(id) == "cancelLoginChatGpt:" \o ToString(id)

\* cancel_login_chatgpt: a matching id takes and drops the active login; any
\* other id is an InvalidRequest error naming the id.
CancelLoginChatGpt(id) ==
    /\ CanRequest
    /\ Handle(CancelLoginMethod(id))
    /\ IF LoginMatches(active_login, id)
       THEN /\ login_server' = DropExisting(login_server, active_login)
            /\ active_login' = 0
            /\ outbox' = Append(outbox, ResponseFrame(RequestId, "login_cancelled", 0))
       ELSE /\ outbox' = Append(outbox, Frame("error", RequestId, "", 0, "InvalidRequest",
                                             id, "none", 0, 0))
            /\ UNCHANGED <<login_server, active_login>>
    /\ UNCHANGED <<login_watcher, nextLogin>>
    /\ UNCHANGED <<initialized, user_agent_suffix, running_requests, tool_session,
                   cancelled_seen, archiveVars, catalogVars, stdout_writer>>
    /\ UNCHANGED <<convRest, auxVars>>

\* logout_chatgpt / login_api_key: the active login is taken and dropped, then
\* the credentials are removed / stored (a failure is InternalError), an
\* authStatusChange notification is sent and the response.
ReplaceCredentials(method, ok) ==
    /\ CanRequest
    /\ Handle(method)
    /\ login_server' = DropExisting(login_server, active_login)
    /\ active_login' = 0
    /\ outbox' = IF ok
                 THEN outbox \o <<LoginNotification("authStatusChange", 0, "auth"),
                                  ResponseFrame(RequestId, "ok", 0)>>
                 ELSE Append(outbox, ErrorFrame(RequestId, "InternalError"))
    /\ UNCHANGED <<login_watcher, nextLogin>>
    /\ UNCHANGED <<initialized, user_agent_suffix, running_requests, tool_session,
                   cancelled_seen, archiveVars, catalogVars, stdout_writer>>
    /\ UNCHANGED <<convRest, auxVars>>

\* the login server finishes: the browser flow completed, or the server failed
LoginServerDone(l, ok) ==
    /\ login_server[l] = "running"
    /\ login_server' = [login_server EXCEPT ![l] = IF ok THEN "done" ELSE "error"]
    /\ UNCHANGED <<active_login, login_watcher, nextLogin>>
    /\ UNCHANGED <<initialized, user_agent_suffix, running_requests, tool_session,
                   cancelled_seen, archiveVars, catalogVars, stdout_writer>>
    /\ UNCHANGED <<convVars, auxVars>>

\* watcher: the outcome of timeout(LOGIN_CHATGPT_TIMEOUT, block_until_done()):
\* Ok(Ok(())) is success; a server error, a shutdown and the timeout are not.
LoginOutcome(server) == IF server = "done" THEN "success" ELSE "failure"

\* Variant: the watcher never reloads the credentials.
WatcherAfterNotify_NoAuth(outcome) == "clear"

\* watcher: `if success { reload; AuthStatusChange }`, then the clearing step
WatcherAfterNotify(outcome) == IF outcome = "success" THEN "auth" ELSE "clear"

\* watcher: block_until_done returned, or LOGIN_CHATGPT_TIMEOUT elapsed and
\* the server is shut down; the loginChatGptComplete notification is sent.
LoginWatcherNotify(l) ==
    /\ login_watcher[l] = "waiting"
    /\ login_server' = [login_server EXCEPT ![l] = IF @ = "running" THEN "shutdown" ELSE @]
    /\ outbox' = Append(outbox, LoginNotification("loginChatGptComplete", l,
                                                  LoginOutcome(login_server[l])))
    /\ login_watcher' = [login_watcher EXCEPT ![l] =
                            WatcherAfterNotify(LoginOutcome(login_server[l]))]
    /\ UNCHANGED <<active_login, nextLogin>>
    /\ UNCHANGED <<initialized, user_agent_suffix, running_requests, tool_session,
                   cancelled_seen, archiveVars, catalogVars, stdout_writer>>
    /\ UNCHANGED <<convRest, requests, auxVars>>

\* watcher, on success: auth_manager.reload() and the authStatusChange notification
LoginWatcherAuth(l) ==
    /\ login_watcher[l] = "auth"
    /\ outbox' = Append(outbox, LoginNotification("authStatusChange", l, "auth"))
    /\ login_watcher' = [login_watcher EXCEPT ![l] = "clear"]
    /\ UNCHANGED <<active_login, login_server, nextLogin>>
    /\ UNCHANGED <<initialized, user_agent_suffix, running_requests, tool_session,
                   cancelled_seen, archiveVars, catalogVars, stdout_writer>>
    /\ UNCHANGED <<convRest, requests, auxVars>>

\* Variant: the watcher clears active_login whatever it holds.
LoginWatcherClear_Always(l) ==
    /\ login_watcher[l] = "clear"
    /\ active_login' = 0
    /\ login_watcher' = [login_watcher EXCEPT ![l] = "done"]
    /\ UNCHANGED <<login_server, nextLogin>>
    /\ UNCHANGED <<initialized, user_agent_suffix, running_requests, tool_session,
                   cancelled_seen, archiveVars, catalogVars, stdout_writer>>
    /\ UNCHANGED <<convVars, auxVars>>

\* watcher: active_login is cleared if it still holds this login
LoginWatcherClear(l) ==
    /\ login_watcher[l] = "clear"
    /\ active_login' = IF active_login = l THEN 0 ELSE active_login
    /\ login_watcher' = [login_watcher EXCEPT ![l] = "done"]
    /\ UNCHANGED <<login_server, nextLogin>>
    /\ UNCHANGED <<initialized, user_agent_suffix, running_requests, tool_session,
                   cancelled_seen, archiveVars, catalogVars, stdout_writer>>
    /\ UNCHANGED <<convVars, auxVars>>

\* ------------------------------------------------------ inbound replies
\* OutgoingMessageSender::notify_client_response, reached from
\* MessageProcessor::process_response: a matching entry is removed and its
\* channel resolved with the result; an unknown id is only logged.
ProcessResponse(k, v) ==
    /\ ~inboundClosed
    /\ ProcessorIdle
    /\ IF k \in callbacks
       THEN /\ callbacks' = callbacks \ {k}
            /\ waiter' = [waiter EXCEPT ![k].chan = "value", ![k].value = v]
       ELSE UNCHANGED <<callbacks, waiter>>
    /\ UNCHANGED auxVars
    /\ UNCHANGED <<expose_all_tools, convs, stream, nextEvent, submissions, requests,
                   conversation_listeners, task, pending_interrupts, outbox,
                   next_request_id, inboundClosed, errorsSeen, handled>>
    /\ UNCHANGED sessionVars

\* The reply channels MessageProcessor::process_error resolves for an inbound
\* error frame with id k (it only logs the frame).
ErrorResolves(k) == {}

\* MessageProcessor::process_error
ProcessError(k) ==
    /\ ~inboundClosed
    /\ ProcessorIdle
    /\ errorsSeen' = errorsSeen \cup ({k} \cap callbacks)
    /\ callbacks' = callbacks \ ErrorResolves(k)
    /\ waiter' = [j \in OutIds |->
                    IF j \in ErrorResolves(k) /\ j \in callbacks
                    THEN [waiter[j] EXCEPT !.chan = "value", !.value = "malformed"]
                    ELSE waiter[j]]
    /\ UNCHANGED auxVars
    /\ UNCHANGED <<expose_all_tools, convs, stream, nextEvent, submissions, requests,
                   conversation_listeners, task, pending_interrupts, outbox,
                   next_request_id, inboundClosed, handled>>
    /\ UNCHANGED sessionVars

\* lib.rs run_main: stdin reaches end-of-stream, the reader drops incoming_tx
\* and the processor loop ends; no further inbound frame is handled.
InboundClosed ==
    /\ ~inboundClosed
    /\ ProcessorIdle
    /\ inboundClosed' = TRUE
    /\ UNCHANGED auxVars
    /\ UNCHANGED <<expose_all_tools, convs, stream, nextEvent, submissions, requests,
                   conversation_listeners, task, pending_interrupts, outbox,
                   next_request_id, callbacks, waiter, errorsSeen, handled>>
    /\ UNCHANGED sessionVars

\* After the inbound side has closed, the reply channels still stored are
\* dropped and their waiters observe failure.
DropReplyChannels ==
    /\ inboundClosed
    /\ callbacks # {}
    /\ callbacks' = {}
    /\ waiter' = [k \in OutIds |->
                    IF k \in callbacks THEN [waiter[k] EXCEPT !.chan = "dropped"]
                    ELSE waiter[k]]
    /\ UNCHANGED auxVars
    /\ UNCHANGED <<expose_all_tools, convs, stream, nextEvent, submissions, requests,
                   conversation_listeners, task, pending_interrupts, outbox,
                   next_request_id, inboundClosed, errorsSeen, handled>>
    /\ UNCHANGED sessionVars

\* ------------------------------------------------------------------ engine
\* The engine appends an event to the stream of a live conversation.
EngineEmit(c, msg, reason) ==
    /\ c \in convs
    /\ nextEvent <= MaxEvents
    /\ (msg = "TurnAborted") = (reason # "none")
    /\ stream' = [stream EXCEPT ![c] =
                    Append(@, [id |-> nextEvent, msg |-> msg, reason |-> reason, conv |-> c])]
    /\ nextEvent' = nextEvent + 1
    /\ UNCHANGED auxVars
    /\ UNCHANGED <<expose_all_tools, convs, submissions, requests, conversation_listeners,
                   task, pending_interrupts, outbox, next_request_id, callbacks, waiter,
                   inboundClosed, errorsSeen, handled>>
    /\ UNCHANGED sessionVars

\* ------------------------------------------------------ fan-out task
\* add_conversation_listener, spawned task.  tokio::select! polls its ready
\* branches in random order, so an event that is ready may be taken although
\* the cancel signal is ready too.  Event is a struct of serialisable fields:
\* serde_json::to_value yields an object, the two `continue` arms are not taken.
SubTake(s) ==
    /\ task[s].pc = "select"
    /\ stream[task[s].conv] # <<>>
    /\ task' = [task EXCEPT ![s].pc = "notify", ![s].ev = Head(stream[task[s].conv])]
    /\ stream' = [stream EXCEPT ![task[s].conv] = Tail(@)]
    /\ UNCHANGED auxVars
    /\ UNCHANGED <<expose_all_tools, convs, nextEvent, submissions, requests,
                   conversation_listeners, pending_interrupts, outbox, next_request_id,
                   callbacks, waiter, inboundClosed, errorsSeen, handled>>
    /\ UNCHANGED sessionVars

\* the cancel branch of the select: the task exits
SubCancelled(s) ==
    /\ task[s].pc = "select"
    /\ task[s].cancel
    /\ task' = [task EXCEPT ![s].pc = "exited"]
    /\ UNCHANGED auxVars
    /\ UNCHANGED <<expose_all_tools, convs, stream, nextEvent, submissions, requests,
                   conversation_listeners, pending_interrupts, outbox, next_request_id,
                   callbacks, waiter, inboundClosed, errorsSeen, handled>>
    /\ UNCHANGED sessionVars

\* the next_event branch of the select with Err: the event stream has ended
\* (the engine's event channel is closed and drained); the task logs and
\* breaks out of its loop.  conversation_listeners is not touched.
SubStreamError(s) ==
    /\ task[s].pc = "select"
    /\ stream[task[s].conv] = <<>>
    /\ task' = [task EXCEPT ![s].pc = "exited"]
    /\ UNCHANGED auxVars
    /\ UNCHANGED <<expose_all_tools, convs, stream, nextEvent, submissions, requests,
                   conversation_listeners, pending_interrupts, outbox, next_request_id,
                   callbacks, waiter, inboundClosed, errorsSeen, handled>>
    /\ UNCHANGED sessionVars

\* Variant: no notification is sent.
EventNotification_None(s, ev) == <<>>

\* the notification codex/event/<msg> the task sends for an event, before the
\* bespoke handling (method holds <msg>)
EventNotification(s, ev) ==
    <<Frame("notification", 0, ev.msg, task[s].conv, "event", 0, ev.reason, ev.id, s)>>

SubNotify(s) ==
    /\ task[s].pc = "notify"
    /\ outbox' = outbox \o EventNotification(s, task[s].ev)
    /\ task' = [task EXCEPT ![s].pc = "bespoke"]
    /\ UNCHANGED auxVars
    /\ UNCHANGED <<expose_all_tools, convs, stream, nextEvent, submissions, requests,
                   conversation_listeners, pending_interrupts, next_request_id,
                   callbacks, waiter, inboundClosed, errorsSeen, handled>>
    /\ UNCHANGED sessionVars

\* Variant: the ExecApprovalRequest arm is missing.
BespokeRequestMethod_NoExec(msg) ==
    CASE msg = "ApplyPatchApprovalRequest" -> "applyPatchApproval"
      [] OTHER -> "none"

\* apply_bespoke_event_handling: the server-initiated request method of an
\* event kind, "none" when the kind has none.
BespokeRequestMethod(msg) ==
    CASE msg = "ApplyPatchApprovalRequest" -> "applyPatchApproval"
      [] msg = "ExecApprovalRequest" -> "execCommandApproval"
      [] OTHER -> "none"

WaiterKind(msg) == IF msg = "ApplyPatchApprovalRequest" THEN "patch" ELSE "exec"

EndIteration(s) ==
    /\ handled' = handled \cup {task[s].ev}
    /\ task' = [task EXCEPT ![s].pc = "select", ![s].ev = NoEvent]

\* apply_bespoke_event_handling, approval arms: send_request mints the id,
\* stores the reply channel and enqueues the request; the waiter is spawned
\* with the event id.
\* Variant: the waiter is handed the call_id.
WaiterEventId_CallId(ev) == CallId(ev)

\* apply_bespoke_event_handling: `let Event { id: event_id, msg } = event`, the
\* event_id handed to the spawned waiter
WaiterEventId(ev) == ev.id

SubBespokeApproval(s) ==
    /\ task[s].pc = "bespoke"
    /\ BespokeRequestMethod(task[s].ev.msg) # "none"
    /\ next_request_id \in OutIds
    /\ LET ev == task[s].ev
           k == next_request_id IN
       /\ outbox' = Append(outbox, Frame("request", k, BespokeRequestMethod(ev.msg),
                                         task[s].conv, "call_id", CallId(ev), "none",
                                         ev.id, s))
       /\ callbacks' = callbacks \cup {k}
       /\ waiter' = [waiter EXCEPT ![k] = [kind |-> WaiterKind(ev.msg),
                                           event_id |-> WaiterEventId(ev),
                                           conv |-> task[s].conv, chan |-> "open",
                                           value |-> "none"]]
    /\ next_request_id' = next_request_id + 1
    /\ EndIteration(s)
    /\ UNCHANGED auxVars
    /\ UNCHANGED <<expose_all_tools, convs, stream, nextEvent, submissions, requests,
                   conversation_listeners, pending_interrupts, inboundClosed, errorsSeen>>
    /\ UNCHANGED sessionVars

\* Variant: the entries are read and left in the map.
DrainPending_Keep(map, c) == map

\* Variant: the whole map is emptied.
DrainPending_All(map, c) == [d \in DOMAIN map |-> <<>>]

\* TurnAborted arm: the map after `map.remove(&conversation_id)`
DrainPending(map, c) == [map EXCEPT ![c] = <<>>]

\* Variant: a fixed reason instead of the event's.
AbortReason_Fixed(ev) == "interrupted"

\* TurnAborted arm: the abort_reason of the InterruptConversationResponse
AbortReason(ev) == ev.reason

\* TurnAborted arm: one response per drained entry, in order; tag is the
\* reply shape (JsonRpc: {abort_reason}, Tool: CallToolResult)
InterruptReplies(pending, ev, s) ==
    [i \in DOMAIN pending |->
        Frame("response", pending[i].id, "", 0, pending[i].tag, 0, AbortReason(ev),
              ev.id, s)]

SubBespokeTurnAborted(s) ==
    /\ task[s].pc = "bespoke"
    /\ task[s].ev.msg = "TurnAborted"
    /\ LET c == task[s].conv IN
       /\ pending_interrupts' = DrainPending(pending_interrupts, c)
       /\ outbox' = outbox \o InterruptReplies(pending_interrupts[c], task[s].ev, s)
    /\ EndIteration(s)
    /\ UNCHANGED auxVars
    /\ UNCHANGED <<expose_all_tools, convs, stream, nextEvent, submissions, requests,
                   conversation_listeners, next_request_id, callbacks, waiter,
                   inboundClosed, errorsSeen>>
    /\ UNCHANGED sessionVars

\* every other event kind: `_ => {}`
SubBespokeOther(s) ==
    /\ task[s].pc = "bespoke"
    /\ task[s].ev.msg # "TurnAborted"
    /\ BespokeRequestMethod(task[s].ev.msg) = "none"
    /\ EndIteration(s)
    /\ UNCHANGED auxVars
    /\ UNCHANGED <<expose_all_tools, convs, stream, nextEvent, submissions, requests,
                   conversation_listeners, pending_interrupts, outbox, next_request_id,
                   callbacks, waiter, inboundClosed, errorsSeen>>
    /\ UNCHANGED sessionVars

\* ------------------------------------------------------ approval waiters
\* Variant: a reply that does not decode counts as an approval.
DecodeDecision_Approve(v) == IF v \in Decisions THEN v ELSE "approved"

\* serde_json::from_value(..).unwrap_or_else(.. Denied)
DecodeDecision(v) == IF v \in Decisions THEN v ELSE "denied"

\* on_patch_approval_response: the ops submitted once the receiver resolves
PatchSubmissions(w) ==
    IF w.chan = "dropped"
    THEN <<Submission(w.conv, "PatchApproval", w.event_id, "denied")>>
    ELSE <<Submission(w.conv, "PatchApproval", w.event_id, DecodeDecision(w.value))>>

\* Variant: a dropped channel is answered with Denied, as for a patch.
ExecSubmissions_DenyOnDrop(w) ==
    IF w.chan = "dropped"
    THEN <<Submission(w.conv, "ExecApproval", w.event_id, "denied")>>
    ELSE <<Submission(w.conv, "ExecApproval", w.event_id, DecodeDecision(w.value))>>

\* on_exec_approval_response: the ops submitted once the receiver resolves
ExecSubmissions(w) ==
    IF w.chan = "dropped"
    THEN <<>>
    ELSE <<Submission(w.conv, "ExecApproval", w.event_id, DecodeDecision(w.value))>>

on_patch_approval_response(k) ==
    /\ waiter[k].kind = "patch"
    /\ waiter[k].chan \in {"value", "dropped"}
    /\ submissions' = submissions \o PatchSubmissions(waiter[k])
    /\ waiter' = [waiter EXCEPT ![k].chan = "done", ![k].value =
                     IF waiter[k].chan = "dropped" THEN "dropped" ELSE @]
    /\ UNCHANGED auxVars
    /\ UNCHANGED <<expose_all_tools, convs, stream, nextEvent, requests,
                   conversation_listeners, task, pending_interrupts, outbox,
                   next_request_id, callbacks, inboundClosed, errorsSeen, handled>>
    /\ UNCHANGED sessionVars

on_exec_approval_response(k) ==
    /\ waiter[k].kind = "exec"
    /\ waiter[k].chan \in {"value", "dropped"}
    /\ submissions' = submissions \o ExecSubmissions(waiter[k])
    /\ waiter' = [waiter EXCEPT ![k].chan = "done", ![k].value =
                     IF waiter[k].chan = "dropped" THEN "dropped" ELSE @]
    /\ UNCHANGED auxVars
    /\ UNCHANGED <<expose_all_tools, convs, stream, nextEvent, requests,
                   conversation_listeners, task, pending_interrupts, outbox,
                   next_request_id, callbacks, inboundClosed, errorsSeen, handled>>
    /\ UNCHANGED sessionVars

\* ------------------------------------------------ auxiliary agents
\* The three tools are handled by the processor task, one call at a time; the
\* completion task of each agent runs concurrently with it.  They are not
\* code-editing tools: handle_call_tool passes them on only with
\* expose_all_tools.
CanAuxRequest ==
    /\ expose_all_tools
    /\ ~inboundClosed
    /\ ProcessorIdle
    /\ Len(requests) < MaxAuxReq

AuxTools == {"codex.spawnAuxAgent", "codex.stopAuxAgent", "codex.listAuxAgents"}

ExitNotification(a) ==
    Frame("notification", 0, "codex/aux-agent/exit", 0, "exit", a, "none", 0, 0)

\* handle_extended_tool_call, aux arms: without a manager (max_aux_agents
\* None or 0, or no path to the current executable) or with arguments that do
\* not parse, a tool error is returned.
AuxRejected(tool, argsOk) ==
    /\ CanAuxRequest
    /\ ~aux_manager \/ ~argsOk
    /\ Handle(IF argsOk THEN tool ELSE "tools/call:invalid-arguments")
    /\ outbox' = Append(outbox, Frame("response", RequestId, "", 0,
                           IF ~aux_manager THEN "disabled" ELSE "invalid_arguments",
                           0, "none", 0, 0))
    /\ UNCHANGED auxVars
    /\ UNCHANGED <<expose_all_tools, convs, stream, nextEvent, submissions,
                   conversation_listeners, task, pending_interrupts, next_request_id,
                   callbacks, waiter, inboundClosed, errorsSeen, handled>>
    /\ UNCHANGED sessionVars

\* Variant: the comparison lets one more agent in.
AtCapacity_Off(n, max) == n > max

\* Variant: the check never refuses.
AtCapacity_Never(n, max) == FALSE

\* spawn_agent: `map.len() >= self.inner.max_agents`
AtCapacity(n, max) == n >= max

\* spawn_agent, first block: the capacity check under the map lock.
spawn_agent_check ==
    /\ CanAuxRequest
    /\ aux_manager
    /\ nextAgent <= MaxSpawns
    /\ ~map_locked
    /\ Handle("codex.spawnAuxAgent")
    /\ IF AtCapacity(Cardinality(agents), max_agents)
       THEN /\ outbox' = Append(outbox, ResponseFrame(RequestId, "max_reached", 0))
            /\ aux_pc' = Idle
       ELSE /\ outbox' = outbox
            /\ aux_pc' = [Idle EXCEPT !.op = "spawn_launch", !.id = RequestId]
    /\ UNCHANGED <<max_agents, aux_manager, agents, map_locked, child, child_lock, completion,
                   readers, nextAgent, list_result>>
    /\ UNCHANGED <<expose_all_tools, convs, stream, nextEvent, submissions,
                   conversation_listeners, task, pending_interrupts, next_request_id,
                   callbacks, waiter, inboundClosed, errorsSeen, handled>>
    /\ UNCHANGED sessionVars

\* spawn_agent: command.spawn()?, the reader tasks and the completion task.
spawn_agent_launch(ok) ==
    /\ aux_pc.op = "spawn_launch"
    /\ IF ok
       THEN /\ child' = [child EXCEPT ![nextAgent] = "running"]
            /\ completion' = [completion EXCEPT ![nextAgent] = "lock"]
            /\ readers' = [readers EXCEPT ![nextAgent] = "running"]
            /\ nextAgent' = nextAgent + 1
            /\ aux_pc' = [aux_pc EXCEPT !.op = "spawn_insert", !.agent = nextAgent]
            /\ outbox' = outbox
       ELSE /\ outbox' = Append(outbox, ResponseFrame(aux_pc.id, "spawn_failed", 0))
            /\ aux_pc' = Idle
            /\ UNCHANGED <<child, completion, readers, nextAgent>>
    /\ UNCHANGED <<max_agents, aux_manager, agents, map_locked, child_lock, list_result>>
    /\ UNCHANGED <<expose_all_tools, convs, stream, nextEvent, submissions, requests,
                   conversation_listeners, task, pending_interrupts, next_request_id,
                   callbacks, waiter, inboundClosed, errorsSeen, handled>>
    /\ UNCHANGED sessionVars

\* spawn_agent, last block: map.insert under the map lock, then the result.
spawn_agent_insert ==
    /\ aux_pc.op = "spawn_insert"
    /\ ~map_locked
    /\ agents' = agents \cup {aux_pc.agent}
    /\ outbox' = Append(outbox, ResponseFrame(aux_pc.id, "spawned", aux_pc.agent))
    /\ aux_pc' = Idle
    /\ UNCHANGED <<max_agents, aux_manager, map_locked, child, child_lock, completion, readers,
                   nextAgent, list_result>>
    /\ UNCHANGED <<expose_all_tools, convs, stream, nextEvent, submissions, requests,
                   conversation_listeners, task, pending_interrupts, next_request_id,
                   callbacks, waiter, inboundClosed, errorsSeen, handled>>
    /\ UNCHANGED sessionVars

\* stop_agent: the map lock is taken and the entry looked up; the lock stays
\* held while the child mutex is awaited.
stop_agent_lookup(a) ==
    /\ CanAuxRequest
    /\ aux_manager
    /\ ~map_locked
    /\ Handle("codex.stopAuxAgent")
    /\ IF a \in agents
       THEN /\ map_locked' = TRUE
            /\ aux_pc' = [Idle EXCEPT !.op = "stop_kill", !.id = RequestId, !.agent = a]
            /\ outbox' = outbox
       ELSE /\ outbox' = Append(outbox, ResponseFrame(RequestId, "not_found", a))
            /\ UNCHANGED <<map_locked, aux_pc>>
    /\ UNCHANGED <<max_agents, aux_manager, agents, child, child_lock, completion, readers,
                   nextAgent, list_result>>
    /\ UNCHANGED <<expose_all_tools, convs, stream, nextEvent, submissions,
                   conversation_listeners, task, pending_interrupts, next_request_id,
                   callbacks, waiter, inboundClosed, errorsSeen, handled>>
    /\ UNCHANGED sessionVars

\* stop_agent: child.lock().await, child.kill().await (kill and reap), both
\* guards dropped.  killOk is the outcome of kill on a child that has exited.
stop_agent_kill(killOk) ==
    /\ aux_pc.op = "stop_kill"
    /\ child_lock[aux_pc.agent] = "free"
    /\ child[aux_pc.agent] = "running" => killOk
    /\ child' = [child EXCEPT ![aux_pc.agent] = "reaped"]
    /\ outbox' = Append(outbox, ResponseFrame(aux_pc.id,
                           IF killOk THEN "stopped" ELSE "kill_failed", aux_pc.agent))
    /\ map_locked' = FALSE
    /\ aux_pc' = Idle
    /\ UNCHANGED <<max_agents, aux_manager, agents, child_lock, completion, readers, nextAgent,
                   list_result>>
    /\ UNCHANGED <<expose_all_tools, convs, stream, nextEvent, submissions, requests,
                   conversation_listeners, task, pending_interrupts, next_request_id,
                   callbacks, waiter, inboundClosed, errorsSeen, handled>>
    /\ UNCHANGED sessionVars

\* list_agents: the snapshot of the map entries, taken under the map lock.
list_agents_snapshot ==
    /\ CanAuxRequest
    /\ aux_manager
    /\ ~map_locked
    /\ Handle("codex.listAuxAgents")
    /\ aux_pc' = [Idle EXCEPT !.op = "list_probe", !.id = RequestId, !.entries = agents]
    /\ UNCHANGED <<max_agents, aux_manager, agents, map_locked, child, child_lock, completion,
                   readers, nextAgent, list_result>>
    /\ UNCHANGED <<expose_all_tools, convs, stream, nextEvent, submissions,
                   conversation_listeners, task, pending_interrupts, outbox,
                   next_request_id, callbacks, waiter, inboundClosed, errorsSeen, handled>>
    /\ UNCHANGED sessionVars

\* list_agents: child.lock().await.try_wait() for one snapshot entry.
list_agents_probe(a) ==
    /\ aux_pc.op = "list_probe"
    /\ a \in aux_pc.entries
    /\ child_lock[a] = "free"
    /\ child' = [child EXCEPT ![a] = IF @ = "exited" THEN "reaped" ELSE @]
    /\ aux_pc' = [aux_pc EXCEPT
                     !.entries = @ \ {a},
                     !.summaries = @ \cup {[agent_id |-> a,
                                            running |-> child[a] = "running"]}]
    /\ UNCHANGED <<max_agents, aux_manager, agents, map_locked, child_lock, completion, readers,
                   nextAgent, list_result>>
    /\ UNCHANGED <<expose_all_tools, convs, stream, nextEvent, submissions, requests,
                   conversation_listeners, task, pending_interrupts, outbox,
                   next_request_id, callbacks, waiter, inboundClosed, errorsSeen, handled>>
    /\ UNCHANGED sessionVars

\* list_agents returns the summaries.
list_agents_return ==
    /\ aux_pc.op = "list_probe"
    /\ aux_pc.entries = {}
    /\ list_result' = aux_pc.summaries
    /\ outbox' = Append(outbox, ResponseFrame(aux_pc.id, "listed",
                                              Cardinality(aux_pc.summaries)))
    /\ aux_pc' = Idle
    /\ UNCHANGED <<max_agents, aux_manager, agents, map_locked, child, child_lock, completion,
                   readers, nextAgent>>
    /\ UNCHANGED <<expose_all_tools, convs, stream, nextEvent, submissions, requests,
                   conversation_listeners, task, pending_interrupts, next_request_id,
                   callbacks, waiter, inboundClosed, errorsSeen, handled>>
    /\ UNCHANGED sessionVars

\* the child process exits on its own
ChildExit(a) ==
    /\ child[a] = "running"
    /\ child' = [child EXCEPT ![a] = "exited"]
    /\ UNCHANGED <<max_agents, aux_manager, agents, map_locked, child_lock, completion, readers,
                   nextAgent, aux_pc, list_result>>
    /\ UNCHANGED convVars
    /\ UNCHANGED sessionVars

\* completion task: completion_child.lock().await
completion_lock(a) ==
    /\ completion[a] = "lock"
    /\ child_lock[a] = "free"
    /\ child_lock' = [child_lock EXCEPT ![a] = "completion"]
    /\ completion' = [completion EXCEPT ![a] = "wait"]
    /\ UNCHANGED <<max_agents, aux_manager, agents, map_locked, child, readers, nextAgent, aux_pc,
                   list_result>>
    /\ UNCHANGED convVars
    /\ UNCHANGED sessionVars

\* completion task: wait().await returns once the child has exited.  On Ok the
\* guard lives on through the body of the `if let`; on Err it is dropped.
completion_wait(a, ok) ==
    /\ completion[a] = "wait"
    /\ child[a] \in {"exited", "reaped"}
    /\ child' = [child EXCEPT ![a] = "reaped"]
    /\ IF ok
       THEN /\ completion' = [completion EXCEPT ![a] = "notify"]
            /\ child_lock' = child_lock
       ELSE /\ completion' = [completion EXCEPT ![a] = "remove"]
            /\ child_lock' = [child_lock EXCEPT ![a] = "free"]
    /\ UNCHANGED <<max_agents, aux_manager, agents, map_locked, readers, nextAgent, aux_pc,
                   list_result>>
    /\ UNCHANGED convVars
    /\ UNCHANGED sessionVars

\* completion task: the codex/aux-agent/exit notification, then the guard drops.
completion_notify(a) ==
    /\ completion[a] = "notify"
    /\ outbox' = Append(outbox, ExitNotification(a))
    /\ child_lock' = [child_lock EXCEPT ![a] = "free"]
    /\ completion' = [completion EXCEPT ![a] = "remove"]
    /\ UNCHANGED <<max_agents, aux_manager, agents, map_locked, child, readers, nextAgent, aux_pc,
                   list_result>>
    /\ UNCHANGED <<expose_all_tools, convs, stream, nextEvent, submissions, requests,
                   conversation_listeners, task, pending_interrupts, next_request_id,
                   callbacks, waiter, inboundClosed, errorsSeen, handled>>
    /\ UNCHANGED sessionVars

\* Variant: the entry is removed and its reader tasks are left running.
remove_agent_NoAbort(a) ==
    /\ completion[a] = "remove"
    /\ ~map_locked
    /\ agents' = agents \ {a}
    /\ completion' = [completion EXCEPT ![a] = "done"]
    /\ UNCHANGED <<max_agents, aux_manager, map_locked, child, child_lock, readers,
                   nextAgent, aux_pc, list_result>>
    /\ UNCHANGED convVars
    /\ UNCHANGED sessionVars

\* remove_agent, called by the completion task: the entry, if present, is
\* removed and its reader tasks aborted.
remove_agent(a) ==
    /\ completion[a] = "remove"
    /\ ~map_locked
    /\ agents' = agents \ {a}
    /\ readers' = [readers EXCEPT ![a] = IF a \in agents THEN "aborted" ELSE @]
    /\ completion' = [completion EXCEPT ![a] = "done"]
    /\ UNCHANGED <<max_agents, aux_manager, map_locked, child, child_lock, nextAgent, aux_pc,
                   list_result>>
    /\ UNCHANGED convVars
    /\ UNCHANGED sessionVars

\* ------------------------------------------------------ stdout writer
\* The holders of the outgoing channel's sender.  OutgoingMessageSender is
\* shared by Arc: the processor and its components hold it until the processor
\* task ends, and every detached task captures a clone: the completion task
\* of an agent (till it returns), the reader tasks (till the child's pipes
\* close or they are aborted), the fan-out tasks, the login watchers and the
\* tool sessions.
SendersAlive ==
    \/ ~inboundClosed
    \/ \E a \in AgentIds : completion[a] \notin {"none", "done"}
    \/ \E a \in AgentIds : readers[a] = "running" /\ child[a] = "running"
    \/ \E s \in SubIds : task[s].pc \notin {"none", "exited"}
    \/ \E l \in LoginIds : login_watcher[l] \notin {"none", "done"}
    \/ \E r \in DOMAIN tool_session : tool_session[r] \notin {"none", "done"}

\* run_main, writer task: outgoing_rx.recv() yields None when every sender is
\* gone and every frame enqueued has been received
WriterChannelClosed == ~SendersAlive

\* run_main, writer task: the next frame is written to stdout; a write error
\* ends the task
writer_write(ok) ==
    /\ stdout_writer.state = "running"
    /\ stdout_writer.written < Len(outbox)
    /\ stdout_writer' = IF ok THEN [stdout_writer EXCEPT !.written = @ + 1]
                             ELSE [stdout_writer EXCEPT !.state = "ended"]
    /\ UNCHANGED <<convVars, auxVars>>
    /\ UNCHANGED <<initialized, user_agent_suffix, running_requests, tool_session,
                   cancelled_seen, loginVars, archiveVars, catalogVars>>

\* run_main, writer task: the channel is closed and empty, the loop ends
writer_exit ==
    /\ stdout_writer.state = "running"
    /\ stdout_writer.written = Len(outbox)
    /\ WriterChannelClosed
    /\ stdout_writer' = [stdout_writer EXCEPT !.state = "ended"]
    /\ UNCHANGED <<convVars, auxVars>>
    /\ UNCHANGED <<initialized, user_agent_suffix, running_requests, tool_session,
                   cancelled_seen, loginVars, archiveVars, catalogVars>>

\* ------------------------------------------------------------------ Spec
\* Subscriptions, fan-out, interrupts: the processor handles conversation
\* requests while the engine emits events and the fan-out tasks run.
Next ==
    \/ \E ok \in BOOLEAN : NewConversation(ok)
    \/ \E c \in ConvIds : InterruptConversation(c)
    \/ \E c \in ConvIds, argsOk \in BOOLEAN : CallToolInterrupt(c, argsOk)
    \/ \E c \in ConvIds : AddConversationListener(c)
    \/ \E s \in SubIds : add_listener_respond(s)
    \/ \E s \in SubIds : RemoveConversationListener(s)
    \/ \E c \in ConvIds, m \in EventMsgs, r \in Reasons \cup {"none"} : EngineEmit(c, m, r)
    \/ \E s \in SubIds : SubTake(s)
    \/ \E s \in SubIds : SubCancelled(s)
    \/ \E s \in SubIds : SubNotify(s)
    \/ \E s \in SubIds : SubBespokeApproval(s)
    \/ \E s \in SubIds : SubBespokeTurnAborted(s)
    \/ \E s \in SubIds : SubBespokeOther(s)

InitConv == Init /\ max_agents = 0

Spec == InitConv /\ [][Next]_vars

\* Approval round trips: approval events, the client's replies, the detached
\* waiters and the end of the inbound side.
InitApproval == InitConv /\ ~expose_all_tools

NextApproval ==
    \/ \E ok \in BOOLEAN : NewConversation(ok)
    \/ \E c \in ConvIds : AddConversationListener(c)
    \/ \E s \in SubIds : add_listener_respond(s)
    \/ \E k \in OutIds, v \in ReplyValues : ProcessResponse(k, v)
    \/ \E k \in OutIds : ProcessError(k)
    \/ InboundClosed
    \/ DropReplyChannels
    \/ \E c \in ConvIds, m \in ApprovalMsgs \cup {"TaskComplete"} : EngineEmit(c, m, "none")
    \/ \E s \in SubIds : SubTake(s)
    \/ \E s \in SubIds : SubNotify(s)
    \/ \E s \in SubIds : SubBespokeApproval(s)
    \/ \E s \in SubIds : SubBespokeOther(s)
    \/ \E k \in OutIds : on_patch_approval_response(k)
    \/ \E k \in OutIds : on_exec_approval_response(k)

SpecApproval == InitApproval /\ [][NextApproval]_vars

\* The same with the scheduling the runtime gives: a detached waiter whose
\* receiver has resolved is eventually run, and the reply channels of a closed
\* inbound side are eventually dropped.
FairApproval ==
    /\ \A k \in OutIds : WF_vars(on_patch_approval_response(k))
    /\ \A k \in OutIds : WF_vars(on_exec_approval_response(k))
    /\ WF_vars(DropReplyChannels)

SpecApprovalFair == InitApproval /\ [][NextApproval]_vars /\ FairApproval

\* The request router alone: every kind of inbound request, no engine events.
NextRouter ==
    \/ \E ok \in BOOLEAN : NewConversation(ok)
    \/ \E c \in ConvIds : SendUserMessage(c)
    \/ \E c \in ConvIds : InterruptConversation(c)
    \/ \E c \in ConvIds, argsOk \in BOOLEAN : CallToolInterrupt(c, argsOk)
    \/ \E c \in ConvIds : AddConversationListener(c)
    \/ \E s \in SubIds : add_listener_respond(s)
    \/ \E s \in SubIds : RemoveConversationListener(s)
    \/ Ping
    \/ \E m \in StubMethods : StubRequest(m)
    \/ \E info \in ClientInfos, lockOk \in BOOLEAN : Initialize(info, lockOk)
    \/ UnknownMethod
    \/ InboundClosed

SpecRouter == InitConv /\ [][NextRouter]_vars

\* Cancellation of codex tool calls: the tool sessions, the cancelled
\* notifications and the archiving of conversations.
NextCancel ==
    \/ \E argsOk \in BOOLEAN : CallToolCodex(argsOk)
    \/ \E r \in ReqIds, ok \in BOOLEAN : ToolSessionStart(r, ok)
    \/ \E r \in ReqIds, submitOk \in BOOLEAN : CancelledNotification(r, submitOk)
    \/ \E c \in ConvIds, rollout_path \in RolloutPaths : ArchiveConversation(c, rollout_path)
    \/ \E ok \in BOOLEAN : archive_submit(ok)
    \/ EngineShutdownComplete
    \/ is_shutdown_next_event
    \/ is_shutdown_notified
    \/ \E elapsed \in BOOLEAN : archive_wait(elapsed)
    \/ \E moveOk \in BOOLEAN : archive_move(moveOk)
    \/ InboundClosed

InitCancel == InitConv /\ ~expose_all_tools

SpecCancel == InitCancel /\ [][NextCancel]_vars

\* Archiving: conversations, their events, the archiveConversation handler
\* with its ShutdownComplete listener, and the files on disk.
NextArchive ==
    \/ \E ok \in BOOLEAN : NewConversation(ok)
    \/ \E c \in ConvIds, msg \in {"TaskComplete"} : EngineEmit(c, msg, "none")
    \/ \E c \in ConvIds, rollout_path \in RolloutPaths : ArchiveConversation(c, rollout_path)
    \/ \E ok \in BOOLEAN : archive_submit(ok)
    \/ EngineShutdownComplete
    \/ is_shutdown_next_event
    \/ is_shutdown_notified
    \/ \E elapsed \in BOOLEAN : archive_wait(elapsed)
    \/ \E moveOk \in BOOLEAN : archive_move(moveOk)

InitArchive == InitConv /\ ~expose_all_tools

SpecArchive == InitArchive /\ [][NextArchive]_vars

\* The same with the scheduling the runtime gives: the processor task goes on
\* whenever it can, and so does the listener task.  Nothing makes the engine
\* answer, and nothing makes the client send a request.
FairArchive ==
    /\ WF_vars(\E ok \in BOOLEAN : archive_submit(ok))
    /\ WF_vars(\E elapsed \in BOOLEAN : archive_wait(elapsed))
    /\ WF_vars(\E moveOk \in BOOLEAN : archive_move(moveOk))
    /\ WF_vars(is_shutdown_next_event)
    /\ WF_vars(is_shutdown_notified)

SpecArchiveFair == InitArchive /\ [][NextArchive]_vars /\ FairArchive

\* The tool catalog: tools/list under every option setting, and the tool
\* calls the options keep out.
NextTools ==
    \/ ListTools
    \/ \E name \in ToolNames : CallToolUnknown(name)
    \/ \E t \in AuxTools, argsOk \in BOOLEAN : AuxRejected(t, argsOk)

SpecTools == Init /\ [][NextTools]_vars

\* Listing the recorded conversations, whatever the rollout files hold.
NextListing ==
    /\ Len(conversations_listed) < MaxListings
    /\ \E listOk \in BOOLEAN, head \in Heads : ListConversations(listOk, head)

SpecListing == InitConv /\ [][NextListing]_vars

\* Interrupts over several conversations: conversations opened and resumed,
\* interrupt requests of both shapes, TurnAborted events and the fan-out tasks.
NextInterrupt ==
    \/ \E ok \in BOOLEAN : NewConversation(ok)
    \/ \E configOk, ok \in BOOLEAN : ResumeConversation(configOk, ok)
    \/ \E c \in ConvIds \cup ResumedIds : InterruptConversation(c)
    \/ \E c \in ConvIds \cup ResumedIds, argsOk \in BOOLEAN : CallToolInterrupt(c, argsOk)
    \/ \E c \in ConvIds \cup ResumedIds : AddConversationListener(c)
    \/ \E s \in SubIds : add_listener_respond(s)
    \/ \E c \in ConvIds \cup ResumedIds, r \in Reasons : EngineEmit(c, "TurnAborted", r)
    \/ \E s \in SubIds : SubTake(s)
    \/ \E s \in SubIds : SubNotify(s)
    \/ \E s \in SubIds : SubBespokeTurnAborted(s)

SpecInterrupt == InitConv /\ [][NextInterrupt]_vars

\* ChatGPT login: the login requests, the login servers and their watchers.
\* Subscriptions over their whole life: added, removed, ended by the end of
\* the event stream, and competing with archiveConversation's listener for the
\* events of the same conversation.
NextSubs ==
    \/ \E ok \in BOOLEAN : NewConversation(ok)
    \/ \E c \in ConvIds : AddConversationListener(c)
    \/ \E s \in SubIds : add_listener_respond(s)
    \/ \E s \in SubIds : RemoveConversationListener(s)
    \/ \E c \in ConvIds : EngineEmit(c, "TaskComplete", "none")
    \/ \E s \in SubIds : SubTake(s)
    \/ \E s \in SubIds : SubNotify(s)
    \/ \E s \in SubIds : SubBespokeOther(s)
    \/ \E s \in SubIds : SubCancelled(s)
    \/ \E s \in SubIds : SubStreamError(s)
    \/ \E c \in ConvIds :
          ArchiveConversation(c, codex_home \o <<SESSIONS_SUBDIR, RolloutName(c)>>)
    \/ \E ok \in BOOLEAN : archive_submit(ok)
    \/ EngineShutdownComplete
    \/ is_shutdown_next_event
    \/ is_shutdown_notified
    \/ \E elapsed \in BOOLEAN : archive_wait(elapsed)
    \/ \E moveOk \in BOOLEAN : archive_move(moveOk)

SpecSubs == InitArchive /\ [][NextSubs]_vars

NextLogin ==
    \/ \E startOk \in BOOLEAN : LoginChatGpt(startOk)
    \/ \E id \in 1..(MaxLogins + 1) : CancelLoginChatGpt(id)
    \/ \E method \in {"logoutChatGpt", "loginApiKey"}, ok \in BOOLEAN :
          ReplaceCredentials(method, ok)
    \/ \E l \in LoginIds, ok \in BOOLEAN : LoginServerDone(l, ok)
    \/ \E l \in LoginIds : LoginWatcherNotify(l)
    \/ \E l \in LoginIds : LoginWatcherAuth(l)
    \/ \E l \in LoginIds : LoginWatcherClear(l)

InitLogin == InitConv /\ ~expose_all_tools

SpecLogin == InitLogin /\ [][NextLogin]_vars

\* The same with the scheduling the runtime gives the watcher tasks: a watcher
\* that can take a step takes it (the timeout bounds its wait for the server).
\* Nothing makes the browser flow finish, and nothing makes the client send a
\* request.
FairLogin ==
    \A l \in LoginIds :
        /\ WF_vars(LoginWatcherNotify(l))
        /\ WF_vars(LoginWatcherAuth(l))
        /\ WF_vars(LoginWatcherClear(l))

SpecLoginFair == InitLogin /\ [][NextLogin]_vars /\ FairLogin

\* The auxiliary-agent manager: tool calls on the processor task, the child
\* processes and their completion tasks.
NextAux ==
    \/ \E t \in AuxTools, argsOk \in BOOLEAN : AuxRejected(t, argsOk)
    \/ spawn_agent_check
    \/ \E ok \in BOOLEAN : spawn_agent_launch(ok)
    \/ spawn_agent_insert
    \/ \E a \in AgentIds : stop_agent_lookup(a)
    \/ \E killOk \in BOOLEAN : stop_agent_kill(killOk)
    \/ list_agents_snapshot
    \/ \E a \in AgentIds : list_agents_probe(a)
    \/ list_agents_return
    \/ \E a \in AgentIds : ChildExit(a)
    \/ \E a \in AgentIds : completion_lock(a)
    \/ \E a \in AgentIds, ok \in BOOLEAN : completion_wait(a, ok)
    \/ \E a \in AgentIds : completion_notify(a)
    \/ \E a \in AgentIds : remove_agent(a)

InitAux == Init /\ expose_all_tools

SpecAux == InitAux /\ [][NextAux]_vars

\* The same with the scheduling the runtime gives: the processor task and the
\* completion tasks are run whenever they can take a step.  Nothing makes a
\* child process exit, and nothing makes the client send a request.
FairAux ==
    /\ WF_vars(\E ok \in BOOLEAN : spawn_agent_launch(ok))
    /\ WF_vars(spawn_agent_insert)
    /\ WF_vars(\E killOk \in BOOLEAN : stop_agent_kill(killOk))
    /\ WF_vars(\E a \in AgentIds : list_agents_probe(a))
    /\ WF_vars(list_agents_return)
    /\ \A a \in AgentIds :
          /\ WF_vars(completion_lock(a))
          /\ WF_vars(\E ok \in BOOLEAN : completion_wait(a, ok))
          /\ WF_vars(completion_notify(a))
          /\ WF_vars(remove_agent(a))

SpecAuxFair == InitAux /\ [][NextAux]_vars /\ FairAux

\* Shutdown: stdin reaches end-of-stream while auxiliary agents may be
\* running; the writer task drains the outgoing channel.
NextShutdown ==
    \/ spawn_agent_check
    \/ \E ok \in BOOLEAN : spawn_agent_launch(ok)
    \/ spawn_agent_insert
    \/ \E a \in AgentIds : ChildExit(a)
    \/ \E a \in AgentIds : completion_lock(a)
    \/ \E a \in AgentIds, ok \in BOOLEAN : completion_wait(a, ok)
    \/ \E a \in AgentIds : completion_notify(a)
    \/ \E a \in AgentIds : remove_agent(a)
    \/ InboundClosed
    \/ \E ok \in BOOLEAN : writer_write(ok)
    \/ writer_exit

\* The scheduling the runtime gives: the processor, the completion tasks and
\* the writer are run whenever they can take a step.  Nothing makes a child
\* process exit.
FairShutdown ==
    /\ WF_vars(\E ok \in BOOLEAN : spawn_agent_launch(ok))
    /\ WF_vars(spawn_agent_insert)
    /\ WF_vars(\E ok \in BOOLEAN : writer_write(ok))
    /\ WF_vars(writer_exit)
    /\ \A a \in AgentIds :
          /\ WF_vars(completion_lock(a))
          /\ WF_vars(\E ok \in BOOLEAN : completion_wait(a, ok))
          /\ WF_vars(completion_notify(a))
          /\ WF_vars(remove_agent(a))

SpecShutdown == InitAux /\ [][NextShutdown]_vars /\ FairShutdown

\* ================================================================= claims
Replies(r) == {i \in DOMAIN outbox : IsReply(outbox[i]) /\ outbox[i].id = r}
RequestsFor(ev) ==
    {i \in DOMAIN outbox : /\ outbox[i].kind = "request"
                           /\ outbox[i].conv = ev.conv
                           /\ outbox[i].n = CallId(ev)}

\* C2: every approval-request event a fan-out task has handled produced exactly
\* one server-initiated request, with method applyPatchApproval for a patch
\* approval and execCommandApproval for an exec approval; every other event
\* produced none, and every request enqueued belongs to such an event.
C2_OneRequestPerApprovalEvent ==
    /\ \A ev \in handled :
         /\ ev.msg = "ApplyPatchApprovalRequest" =>
              /\ Cardinality(RequestsFor(ev)) = 1
              /\ \A i \in RequestsFor(ev) : outbox[i].method = "applyPatchApproval"
         /\ ev.msg = "ExecApprovalRequest" =>
              /\ Cardinality(RequestsFor(ev)) = 1
              /\ \A i \in RequestsFor(ev) : outbox[i].method = "execCommandApproval"
         /\ ev.msg \notin ApprovalMsgs => RequestsFor(ev) = {}
    /\ \A i \in DOMAIN outbox :
         outbox[i].kind = "request" =>
            \E s \in SubIds :
               \E ev \in handled \cup {task[s].ev} :
                  /\ ev.msg \in ApprovalMsgs
                  /\ i \in RequestsFor(ev)

C2_Witness ==
    /\ \E ev \in handled : ev.msg = "ExecApprovalRequest"
    /\ \E ev \in handled : ev.msg = "TurnAborted"

\* C4: no request id ever has more than one response or error frame enqueued.
C4_AtMostOneReply ==
    \A r \in DOMAIN requests : Cardinality(Replies(r)) <= 1

\* an interrupt was answered by one TurnAborted and a second TurnAborted of the
\* same conversation has been handled too
C4_Witness ==
    \E i \in DOMAIN outbox :
        /\ outbox[i].kind = "response"
        /\ outbox[i].ev # 0
        /\ \E ev \in handled :
              /\ ev.msg = "TurnAborted"
              /\ ev.id # outbox[i].ev
              /\ \E e1 \in handled : e1.id = outbox[i].ev /\ e1.conv = ev.conv

PendingEntries(map, c) == {map[c][i] : i \in DOMAIN map[c]}

C6_NotificationFirst ==
    \A i \in DOMAIN outbox :
        (outbox[i].ev # 0 /\ outbox[i].kind # "notification") =>
            \E j \in 1..(i - 1) :
                /\ outbox[j].kind = "notification"
                /\ outbox[j].ev = outbox[i].ev

C6_Witness ==
    /\ \E i \in DOMAIN outbox : outbox[i].kind = "request"
    /\ \E i \in DOMAIN outbox : outbox[i].kind = "response" /\ outbox[i].ev # 0

\* C7: once the response to removeConversationListener(S) is enqueued, the
\* fan-out task of S enqueues nothing more.
C7_NoFrameAfterRemove ==
    \A i \in DOMAIN outbox :
        outbox[i].tag = "removed" =>
            \A j \in DOMAIN outbox : j > i => outbox[j].sub # outbox[i].n

\* C8: the event notifications of a conversation are enqueued in the order in
\* which its stream yielded the events (event ids grow in stream order).
C8_StreamOrder ==
    \A i, j \in DOMAIN outbox :
        (/\ i < j
         /\ outbox[i].kind = "notification" /\ outbox[j].kind = "notification"
         /\ outbox[i].conv = outbox[j].conv) => outbox[i].ev < outbox[j].ev

SubmissionsFor(k) ==
    {i \in DOMAIN submissions :
        /\ submissions[i].id = waiter[k].event_id
        /\ submissions[i].conv = waiter[k].conv
        /\ submissions[i].op = (IF waiter[k].kind = "patch" THEN "PatchApproval"
                                                              ELSE "ExecApproval")}

Answered(k) ==
    /\ Cardinality(SubmissionsFor(k)) = 1
    /\ \A i \in SubmissionsFor(k) :
          submissions[i].decision =
             (IF waiter[k].value \in Decisions THEN waiter[k].value ELSE "denied")

\* C1: once the client's reply to an approval request has arrived, or its
\* reply channel was dropped, or the client answered with an error frame,
\* exactly one PatchApproval / ExecApproval for the event is eventually
\* submitted: with the client's decision when the reply decodes, with Denied
\* otherwise.
C1_ApprovalEventuallyAnswered ==
    \A k \in OutIds :
        (/\ waiter[k].kind # "none"
         /\ \/ waiter[k].chan \in {"value", "dropped"}
            \/ k \in errorsSeen) ~> Answered(k)

\* C9: an inbound error frame whose id matches an outstanding server request
\* has removed the callback entry and resolved the waiter, like a response.
C9_ErrorResolvesWaiter ==
    \A k \in errorsSeen : k \notin callbacks /\ waiter[k].chan # "open"

\* C3: every inbound request other than an interrupt has exactly one response
\* or error frame once its handler has returned.
C3_OneResponsePerRequest ==
    \A r \in DOMAIN requests :
        requests[r] \notin {"interruptConversation",
                            "tools/call:codex.interruptConversation"}
            => Cardinality(Replies(r)) = 1

LiveChildren == {a \in AgentIds : child[a] = "running"}

\* C10: the agent map never holds more than max_aux_agents entries and never
\* more than max_aux_agents launched children are alive.
C10_PoolWithinCap ==
    /\ Cardinality(agents) <= max_agents
    /\ Cardinality(LiveChildren) <= max_agents

\* the pool is full, a spawn was refused for it, and a slot had been reused
C10_Witness ==
    /\ max_agents = MaxAuxAgents
    /\ Cardinality(agents) = max_agents
    /\ Cardinality(LiveChildren) = max_agents
    /\ nextAgent > MaxAuxAgents + 1
    /\ \E i \in DOMAIN outbox : outbox[i].tag = "max_reached"

Spawned(a) == \E i \in DOMAIN outbox : outbox[i].tag = "spawned" /\ outbox[i].n = a
ExitNotes(a) == {i \in DOMAIN outbox : outbox[i] = ExitNotification(a)}

\* C11: for an agent returned by a successful spawn whose child has exited,
\* eventually one codex/aux-agent/exit notification has been emitted for it
\* and it is absent from the agent map, whenever the child exited.
C11_ExitFreesSlot ==
    \A a \in AgentIds :
        (Spawned(a) /\ child[a] \in {"exited", "reaped"})
            ~> (a \notin agents /\ Cardinality(ExitNotes(a)) = 1)

C13_ListReturns ==
    \A n \in 0..MaxSpawns :
        (aux_pc.op = "list_probe" /\ Cardinality(aux_pc.entries \cup
              {e.agent_id : e \in aux_pc.summaries}) = n)
            ~> (\E i \in DOMAIN outbox : outbox[i].tag = "listed" /\ outbox[i].n = n)

\* C14: a spawn handled while the map holds max_aux_agents entries is answered
\* with the "maximum number of auxiliary agents reached" error, launches no
\* child, starts no task and leaves the map unchanged.
C14_FullPoolRefuses ==
    [][(/\ requests' = Append(requests, "codex.spawnAuxAgent")
        /\ max_agents > 0
        /\ Cardinality(agents) >= max_agents)
       => /\ outbox' = Append(outbox, ResponseFrame(Len(requests'), "max_reached", 0))
          /\ aux_pc' = Idle
          /\ UNCHANGED <<agents, child, completion, readers, nextAgent>>]_vars

\* a spawn was refused while the pool held max_aux_agents running agents
C14_Witness ==
    /\ Cardinality(agents) = max_agents
    /\ agents \subseteq LiveChildren
    /\ outbox # <<>>
    /\ outbox[Len(outbox)].tag = "max_reached"

InitializeRequests == {r \in DOMAIN requests : requests[r] = "initialize"}

\* C15: of the initialize requests handled so far, the first has a success
\* response and every later one an InvalidRequest error, each exactly one
\* frame; a later initialize leaves the flag and the recorded client unchanged.
C15_InitializeOnce ==
    /\ [](/\ \A r \in InitializeRequests :
              /\ Cardinality(Replies(r)) = 1
              /\ \A i \in Replies(r) :
                    IF \A q \in InitializeRequests : r <= q
                    THEN outbox[i].kind = "response" /\ outbox[i].tag = "initialized"
                    ELSE outbox[i].kind = "error" /\ outbox[i].tag = "InvalidRequest"
          /\ InitializeRequests # {} => initialized)
    /\ [][(InitializeRequests # {} /\ requests' = Append(requests, "initialize"))
             => /\ UNCHANGED <<initialized, user_agent_suffix>>
                /\ outbox' = Append(outbox, ErrorFrame(Len(requests'), "InvalidRequest"))]_vars

\* two initialize requests with different client infos have been handled
C15_Witness ==
    /\ Cardinality(InitializeRequests) >= 2
    /\ user_agent_suffix = "editor; 1"
    /\ \E i \in DOMAIN outbox : outbox[i].kind = "error" /\ outbox[i].id \in InitializeRequests

\* C16: a request with an unknown method has an error frame with its id and
\* the InvalidRequest code.
C16_UnknownMethodError ==
    \A r \in DOMAIN requests :
        requests[r] = "unknown/method" =>
            \E i \in DOMAIN outbox :
                /\ outbox[i].kind = "error"
                /\ outbox[i].id = r
                /\ outbox[i].tag = "InvalidRequest"

InterruptsFor(subs, r) ==
    {i \in DOMAIN subs : subs[i].op = "Interrupt" /\ subs[i].id = r}

ApprovalOps == {"PatchApproval", "ExecApproval"}
ApprovalEventsSeen ==
    {ev \in handled \cup {task[s].ev : s \in SubIds} : ev.msg \in ApprovalMsgs}
OpOf(ev) == IF ev.msg = "ApplyPatchApprovalRequest" THEN "PatchApproval" ELSE "ExecApproval"

\* C18 as stated: every PatchApproval / ExecApproval submitted carries as its
\* id the call_id of an approval-request event of its kind.
C18_ApprovalIdIsCallId ==
    \A i \in DOMAIN submissions :
        submissions[i].op \in ApprovalOps =>
            \E ev \in ApprovalEventsSeen :
                /\ OpOf(ev) = submissions[i].op
                /\ ev.conv = submissions[i].conv
                /\ submissions[i].id = CallId(ev)

\* C18 as amended: every PatchApproval / ExecApproval submitted carries as its
\* id the id of the approval-request event (Event.id) of its kind, and never
\* that event's call_id.
C18_ApprovalIdIsEventId ==
    \A i \in DOMAIN submissions :
        submissions[i].op \in ApprovalOps =>
            /\ \E ev \in ApprovalEventsSeen :
                  /\ OpOf(ev) = submissions[i].op
                  /\ ev.conv = submissions[i].conv
                  /\ submissions[i].id = ev.id
            /\ \A ev \in ApprovalEventsSeen : submissions[i].id # CallId(ev)

\* an ExecApproval and a PatchApproval have been submitted
C18_Witness ==
    /\ \E i \in DOMAIN submissions : submissions[i].op = "ExecApproval"
    /\ \E i \in DOMAIN submissions : submissions[i].op = "PatchApproval"

RunningLogins == {l \in LoginIds : login_server[l] = "running"}

\* C19: at most one login is live and it is the one recorded in active_login;
\* a loginChatGpt that starts a login while another is active leaves the
\* previous login's server shut down and records the new login as active.
C19_OneActiveLogin ==
    /\ [](/\ Cardinality(RunningLogins) <= 1
          /\ \A l \in RunningLogins : active_login = l)
    /\ [][(requests' = Append(requests, "loginChatGpt") /\ nextLogin' # nextLogin)
            => /\ active_login' = nextLogin
               /\ login_server'[nextLogin] = "running"
               /\ (active_login # 0 /\ login_server[active_login] = "running")
                     => login_server'[active_login] = "shutdown"]_vars

\* a second login was started while the first was running
C19_Witness ==
    /\ nextLogin = 3
    /\ login_server[1] = "shutdown"
    /\ login_watcher[1] = "waiting"
    /\ active_login = 2
    /\ login_server[2] = "running"

\* C20: a cancelLoginChatGpt whose id is the active login's shuts that login
\* down, clears active_login and is answered with success; with any other id,
\* or with no active login, it is answered with an InvalidRequest error and
\* leaves active_login and the login servers as they were.
C20_CancelIffMatching ==
    [][\A id \in 1..(MaxLogins + 1) :
          requests' = Append(requests, CancelLoginMethod(id)) =>
             IF active_login = id
             THEN /\ active_login' = 0
                  /\ login_server'[id] # "running"
                  /\ \A l \in LoginIds \ {id} : login_server'[l] = login_server[l]
                  /\ outbox' = Append(outbox, ResponseFrame(Len(requests'),
                                                            "login_cancelled", 0))
             ELSE /\ UNCHANGED <<active_login, login_server>>
                  /\ Len(outbox') = Len(outbox) + 1
                  /\ outbox'[Len(outbox')].kind = "error"
                  /\ outbox'[Len(outbox')].id = Len(requests')
                  /\ outbox'[Len(outbox')].tag = "InvalidRequest"]_vars

\* a cancel with another id was refused while login 1 stayed active and
\* running, and a later cancel with id 1 shut it down
C20_Witness ==
    /\ Len(requests) = 3
    /\ requests[2] = CancelLoginMethod(2)
    /\ requests[3] = CancelLoginMethod(1)
    /\ outbox[2].kind = "error"
    /\ outbox[3].tag = "login_cancelled"
    /\ login_server[1] = "shutdown"
    /\ active_login = 0

CompleteNotes(l) ==
    {i \in DOMAIN outbox : /\ outbox[i].kind = "notification"
                           /\ outbox[i].method = "loginChatGptComplete"
                           /\ outbox[i].n = l}

WatcherAuthNotes(l) ==
    {i \in DOMAIN outbox : /\ outbox[i].kind = "notification"
                           /\ outbox[i].method = "authStatusChange"
                           /\ outbox[i].n = l}

SucceededLogin(l) == \E j \in CompleteNotes(l) : outbox[j].tag = "success"

\* C21: every started login gets exactly one loginChatGptComplete
\* notification with its id, eventually; its watcher sends an authStatusChange
\* notification after it exactly when the notification reports success.
C21_OneCompletePerLogin ==
    /\ [](\A l \in LoginIds :
            /\ Cardinality(CompleteNotes(l)) <= 1
            /\ l >= nextLogin => CompleteNotes(l) = {}
            /\ Cardinality(WatcherAuthNotes(l)) <= 1
            /\ \A i \in WatcherAuthNotes(l) :
                  \E j \in CompleteNotes(l) : j < i /\ outbox[j].tag = "success")
    /\ \A l \in LoginIds :
          /\ (l < nextLogin) ~> (Cardinality(CompleteNotes(l)) = 1)
          /\ SucceededLogin(l) ~> (WatcherAuthNotes(l) # {})

\* login 1 succeeded and was announced with both notifications; login 2 was
\* started and reported as failed, with no authStatusChange of its own
C21_Witness ==
    /\ SucceededLogin(1)
    /\ WatcherAuthNotes(1) # {}
    /\ CompleteNotes(2) # {}
    /\ ~SucceededLogin(2)
    /\ login_watcher[2] = "done"
    /\ WatcherAuthNotes(2) = {}

\* What each rollout_path a client may send denotes on the initial disk, read
\* off the directory layout: the file it leads to, or <<>> for none.
Denoted(path) ==
    CASE path = codex_home \o <<SESSIONS_SUBDIR, RolloutName(1)>> -> path
      [] path = codex_home \o <<SESSIONS_SUBDIR, RolloutName(MaxConvs + 1)>> -> path
      [] path = OtherDir \o <<RolloutName(1)>> -> path
      [] path = codex_home \o <<SESSIONS_SUBDIR, ParentDir, Dir("other"), RolloutName(1)>>
            -> OtherDir \o <<RolloutName(1)>>
      [] path = SessionsLink \o <<RolloutName(1)>> -> OtherDir \o <<RolloutName(1)>>
      [] path = codex_home \o <<SESSIONS_SUBDIR, ParentDir, SESSIONS_SUBDIR, RolloutName(1)>>
            -> codex_home \o <<SESSIONS_SUBDIR, RolloutName(1)>>
      [] OTHER -> <<>>

\* the files that lie in the sessions directory
SessionFiles ==
    files \cap {codex_home \o <<SESSIONS_SUBDIR, RolloutName(c)>> : c \in 1..(MaxConvs + 1)}

ArchivableAs(c, path) ==
    /\ Denoted(path) \in SessionFiles
    /\ Last(Denoted(path)) = RolloutName(c)

ArchiveRequests == {r \in DOMAIN requests : requests[r] = "archiveConversation"}

\* C22: an archiveConversation whose rollout path does not lead to a file in
\* the sessions directory, or whose file is not named after the conversation,
\* is answered with an InvalidRequest error and changes nothing: the
\* conversation stays in the manager, nothing is submitted, no file moves.
C22_BadPathRejected ==
    [][\A c \in ConvIds, path \in RolloutPaths :
          (ArchiveConversation(c, path) /\ ~ArchivableAs(c, path)) =>
              /\ outbox' = Append(outbox, ErrorFrame(Len(requests'), "InvalidRequest"))
              /\ UNCHANGED <<convs, submissions, stream, files, archive>>]_vars

\* an archiveConversation was refused while conversation 1 was live and its
\* rollout file in place; both are still there
C22_Witness ==
    /\ \E r \in ArchiveRequests :
          \E i \in Replies(r) : outbox[i].kind = "error" /\ outbox[i].tag = "InvalidRequest"
    /\ 1 \in convs
    /\ files = InitialFiles
    /\ submissions = <<>>

\* C23: an archiveConversation on a live conversation does not wait forever:
\* a failed Shutdown submission takes it straight to the move, and every
\* archiveConversation request gets exactly one reply, eventually.
C23_ArchiveAnswers ==
    /\ [](\A r \in ArchiveRequests : Cardinality(Replies(r)) <= 1)
    /\ [][(archive.op = "submit" /\ archive'.op # "submit" /\ submissions' = submissions)
            => archive'.op = "move"]_vars
    /\ \A r \in ReqIds : (r \in ArchiveRequests) ~> (Cardinality(Replies(r)) = 1)

\* a live conversation was archived although the engine never answered the
\* Shutdown that was submitted
C23_Witness ==
    /\ archive.op = "idle"
    /\ archive.engine = "asked"
    /\ \E i \in DOMAIN submissions : submissions[i].op = "Shutdown"
    /\ \E i \in Replies(archive.id) : outbox[i].tag = "archived"

\* The mutexes of the shared-resource policy that some task holds while it is
\* suspended.  active_login, pending_interrupts and running_requests are taken
\* and released inside one step of their handlers; the agents map is held by
\* stop_agent from its lookup to the end of kill.
MutexesHeldWhileSuspended ==
    {mutex \in {"active_login", "pending_interrupts", "running_requests", "aux_agents"} :
        mutex = "aux_agents" /\ map_locked}

\* C24: no task holds one of the mutexes active_login, pending_interrupts,
\* running_requests, aux_agents while it waits for another lock or for a
\* child-process operation (nor two of them at once).
C24_NoMutexHeldWhileWaiting ==
    /\ Cardinality(MutexesHeldWhileSuspended) <= 1
    /\ aux_pc.op = "stop_kill" => MutexesHeldWhileSuspended = {}

ListRequests == {r \in DOMAIN requests : requests[r] = "tools/list"}

Elements(names) == {names[i] : i \in DOMAIN names}

C27_AuxToolsIffManager ==
    \A i \in DOMAIN tools_listed :
        \A name \in {"codex.spawnAuxAgent", "codex.stopAuxAgent", "codex.listAuxAgents"} :
            Contains(tools_listed[i], name) <=> (max_agents >= 1)

\* C27, amended: the auxiliary-agent tools are listed exactly when
\* expose_all_tools is set and max_aux_agents is at least 1.
C27_AuxToolsIffExposedAndManager ==
    \A i \in DOMAIN tools_listed :
        \A name \in {"codex.spawnAuxAgent", "codex.stopAuxAgent", "codex.listAuxAgents"} :
            Contains(tools_listed[i], name) <=> (expose_all_tools /\ max_agents >= 1)

\* the auxiliary-agent tools were listed
C27_Witness ==
    /\ expose_all_tools
    /\ max_agents = 1
    /\ tools_listed # <<>>
    /\ Contains(tools_listed[1], "codex.spawnAuxAgent")
    /\ Contains(tools_listed[1], "codex.listAuxAgents")

PlainInputsAt(head) ==
    {p \in (DOMAIN head) \X (1..2) :
        /\ head[p[1]].type = "message"
        /\ p[2] \in DOMAIN head[p[1]].content
        /\ head[p[1]].content[p[2]].type = "input_text"
        /\ InputMessageKind("user", head[p[1]].content[p[2]].text) = "Plain"}

ComesBefore(p, q) == p[1] < q[1] \/ (p[1] = q[1] /\ p[2] < q[2])

FirstPlainText(head) ==
    LET p == CHOOSE p \in PlainInputsAt(head) :
                \A q \in PlainInputsAt(head) : q = p \/ ComesBefore(p, q)
    IN head[p[1]].content[p[2]].text

Least(S) == CHOOSE k \in S : \A m \in S : k <= m
Greatest(S) == CHOOSE k \in S : \A m \in S : k >= m

WithoutOuterSpace(text) ==
    LET inked == {k \in DOMAIN text : text[k] # SP} IN
    IF inked = {} THEN <<>> ELSE SubSeq(text, Least(inked), Greatest(inked))

PreviewOf(text) ==
    LET marks == {k \in DOMAIN text : text[k] = USER_MESSAGE_BEGIN} IN
    IF marks = {} THEN text
    ELSE WithoutOuterSpace(SubSeq(text, Least(marks) + 1, Len(text)))

C30_DroppedChannel ==
    [][\A k \in OutIds :
          (waiter[k].chan = "dropped" /\ waiter'[k].chan = "done") =>
              /\ waiter[k].kind = "exec" => UNCHANGED submissions
              /\ waiter[k].kind = "patch" =>
                    submissions' = Append(submissions,
                                          Submission(waiter[k].conv, "PatchApproval",
                                                     waiter[k].event_id, "denied"))]_vars

\* both kinds of waiter have seen their channel dropped and have finished
C30_Witness ==
    \E k1, k2 \in OutIds :
        /\ waiter[k1].kind = "patch" /\ waiter[k1].chan = "done"
        /\ waiter[k1].value = "dropped"
        /\ waiter[k2].kind = "exec" /\ waiter[k2].chan = "done"
        /\ waiter[k2].value = "dropped"
        /\ \E i \in DOMAIN submissions :
              submissions[i].op = "PatchApproval" /\ submissions[i].decision = "denied"
        /\ \A i \in DOMAIN submissions : submissions[i].op # "ExecApproval"

\* C31: approvals fail closed.  A waiter whose reply did not decode as a
\* decision has submitted Denied for its event; and an Approved or
\* ApprovedForSession decision is submitted for an approval event only when
\* the client's reply to the request of that event was exactly that decision.
C31_FailClosed ==
    /\ \A k \in OutIds :
          (waiter[k].chan = "done" /\ waiter[k].value = "malformed") =>
              /\ SubmissionsFor(k) # {}
              /\ \A i \in SubmissionsFor(k) : submissions[i].decision = "denied"
    /\ \A i \in DOMAIN submissions :
          (/\ submissions[i].op \in {"PatchApproval", "ExecApproval"}
           /\ submissions[i].decision \in {"approved", "approved_for_session"}) =>
              \E k \in OutIds :
                  /\ i \in SubmissionsFor(k)
                  /\ outbox[CHOOSE j \in DOMAIN outbox :
                               outbox[j].kind = "request" /\ outbox[j].id = k].ev
                        = submissions[i].id
                  /\ waiter[k].value = submissions[i].decision

\* one approval was answered with something that is no decision and another
\* with an approval; both waiters have submitted
C31_Witness ==
    \E k1, k2 \in OutIds :
        /\ waiter[k1].chan = "done" /\ waiter[k1].value = "malformed"
        /\ waiter[k2].chan = "done" /\ waiter[k2].value = "approved_for_session"
        /\ \E i \in SubmissionsFor(k1) : submissions[i].decision = "denied"
        /\ \E i \in SubmissionsFor(k2) : submissions[i].decision = "approved_for_session"

\* C32: the step that handles a TurnAborted event of conversation c empties
\* the pending interrupts of c, appends one response per entry in the order of
\* the entries (to the entry's request id, in the entry's shape, with the
\* reason of the event) and nothing else, and leaves the pending interrupts of
\* every other conversation as they were; with no entry nothing is sent.
C32_TurnAbortedDrains ==
    [][\A s \in SubIds :
          (/\ task[s].pc = "bespoke"
           /\ task[s].ev.msg = "TurnAborted"
           /\ task'[s].pc # "bespoke") =>
              LET c == task[s].conv
                  pending == pending_interrupts[c] IN
              /\ pending_interrupts'[c] = <<>>
              /\ \A d \in DOMAIN pending_interrupts :
                    d # c => pending_interrupts'[d] = pending_interrupts[d]
              /\ Len(outbox') = Len(outbox) + Len(pending)
              /\ SubSeq(outbox', 1, Len(outbox)) = outbox
              /\ \A i \in DOMAIN pending :
                    LET f == outbox'[Len(outbox) + i] IN
                    /\ f.kind = "response"
                    /\ f.id = pending[i].id
                    /\ f.tag = pending[i].tag
                    /\ f.reason = task[s].ev.reason]_vars

\* a TurnAborted of one conversation has answered that conversation's
\* interrupt while the interrupt of another conversation is still pending
C32_Witness ==
    \E ev \in handled :
        /\ ev.msg = "TurnAborted"
        /\ pending_interrupts[ev.conv] = <<>>
        /\ \E i \in DOMAIN outbox :
              /\ outbox[i].kind = "response"
              /\ outbox[i].tag \in {"JsonRpc", "Tool"}
              /\ outbox[i].ev = ev.id
              /\ outbox[i].reason = ev.reason
        /\ \E d \in DOMAIN pending_interrupts :
              d # ev.conv /\ pending_interrupts[d] # <<>>

\* C40: a step of the watcher of login l leaves every other login alone: it
\* neither stops the server of another login nor takes another login out of
\* active_login; and its last step clears active_login exactly when
\* active_login still holds l.
C40_WatcherClearsOwnLogin ==
    [][\A l \in LoginIds :
          (login_watcher[l] # "none" /\ login_watcher'[l] # login_watcher[l]) =>
              /\ \A m \in LoginIds \ {l} :
                    /\ login_server'[m] = login_server[m]
                    /\ active_login = m => active_login' = m
              /\ (login_watcher[l] = "clear" /\ active_login = l) => active_login' = 0
              /\ login_watcher[l] # "clear" => active_login' = active_login]_vars

\* the watcher of a login that was superseded has finished while the newer
\* login is still the active one and its server still runs
C40_Witness ==
    \E l, m \in LoginIds :
        /\ l # m
        /\ login_watcher[l] = "done"
        /\ active_login = m
        /\ login_server[m] = "running"
        /\ login_watcher[m] = "waiting"

\* C35: an entry leaves the agents map only in the last step of that agent's
\* completion task, never in a step of a tool call; the step that removes it
\* aborts the agent's reader tasks, nothing else aborts them, and an entry
\* that was removed is not put back, so it is removed at most once.
C35_CompletionTaskSoleRemover ==
    [][\A a \in AgentIds :
          /\ (a \in agents /\ a \notin agents') =>
                /\ completion[a] = "remove" /\ completion'[a] = "done"
                /\ aux_pc' = aux_pc
                /\ readers[a] = "running" /\ readers'[a] = "aborted"
          /\ (readers[a] # "aborted" /\ readers'[a] = "aborted") =>
                (a \in agents /\ a \notin agents')
          /\ (a \notin agents /\ a \in agents') => readers[a] # "aborted"]_vars

\* an agent was stopped by a tool call and its entry then removed by its
\* completion task, with the reader tasks aborted
C35_Witness ==
    \E a \in AgentIds :
        /\ \E i \in DOMAIN outbox : outbox[i].tag = "stopped" /\ outbox[i].n = a
        /\ completion[a] = "done"
        /\ a \notin agents
        /\ readers[a] = "aborted"

\* the requests that called the tool `name` with arguments that parse
CallsOf(name) ==
    {r \in DOMAIN requests : requests[r] = name \/ requests[r] = "tools/call:" \o name}

\* C39: a tool call is turned away with an error result exactly when
\* tools/list does not advertise the tool for the server's options: a call of
\* a tool that is not advertised gets one error result, and a call of an
\* advertised tool is not answered "unknown" or "disabled".
C39_CallableIffListed ==
    \A name \in ToolNames :
        \A r \in CallsOf(name) :
            /\ Cardinality(Replies(r)) = 1
            /\ (\E i \in Replies(r) : outbox[i].tag \in {"tool_error", "disabled"})
                  <=> ~Contains(compute_tool_names(expose_all_tools, max_agents), name)

\* C38: no frame produced by a subscription's fan-out task (event
\* notification, approval request, interrupt response) is enqueued before the
\* addConversationListener response that returns the subscription's id.
C38_ResponseBeforeFanOut ==
    \A i \in DOMAIN outbox :
        outbox[i].sub # 0 =>
            \E j \in 1..(i - 1) :
                /\ outbox[j].kind = "response"
                /\ outbox[j].tag = "subscription"
                /\ outbox[j].n = outbox[i].sub

\* the subscriptions whose fan-out task is running
RunningTasks == {s \in SubIds : task[s].pc \notin {"none", "exited"}}

\* the successful removeConversationListener responses for subscription s
RemovedReplies(s) ==
    {i \in DOMAIN outbox : outbox[i].kind = "response" /\ outbox[i].tag = "removed"
                           /\ outbox[i].n = s}

\* C37: every entry of conversation_listeners belongs to a fan-out task that
\* is still running (a subscription whose task ended on an event-stream error
\* is gone, so removing it later is an error), and removeConversationListener
\* succeeds at most once per subscription id.
C37_ListenersAreRunningTasks ==
    /\ conversation_listeners \subseteq RunningTasks
    /\ \A s \in SubIds : Cardinality(RemovedReplies(s)) <= 1

\* the codex/event notifications sent for the event with id e
NotificationsOf(e) ==
    {i \in DOMAIN outbox : outbox[i].kind = "notification" /\ outbox[i].tag = "event"
                           /\ outbox[i].ev = e}

\* conversation c has an active subscription
Subscribed(c) == \E s \in conversation_listeners \cap RunningTasks : task[s].conv = c

\* C36: every event the engine yields for a conversation while a subscription
\* to it is active produces exactly one codex/event notification: no event is
\* notified twice, every event a fan-out task has dealt with was notified,
\* and an event leaves the stream of a subscribed conversation only into the
\* hands of a fan-out task (also while archiveConversation waits for
\* ShutdownComplete).
C36_OneNotificationPerEvent ==
    /\ [](\A e \in 1..MaxEvents : Cardinality(NotificationsOf(e)) <= 1)
    /\ [](\A ev \in handled : Cardinality(NotificationsOf(ev.id)) = 1)
    /\ [][\A c \in ConvIds :
            (Subscribed(c) /\ Len(stream'[c]) < Len(stream[c]))
                => \E s \in SubIds : /\ task[s].pc = "select"
                                     /\ task'[s].pc = "notify"
                                     /\ task'[s].ev = Head(stream[c])]_vars

\* the request dispatched by this step, when it dispatches one
Dispatched == requests' # requests

\* C33: inbound frames are handled in arrival order, one at a time: a frame
\* is dispatched only when the handler of the frame before has returned, and
\* it is appended to what was dispatched before; a newConversation has its
\* one reply enqueued, and on success its conversation created, by the time
\* the next request is dispatched.
C33_OneFrameAtATime ==
    /\ [][Dispatched =>
            /\ aux_pc.op = "idle"
            /\ archive.op = "idle"
            /\ \A s \in SubIds : task[s].respond = 0
            /\ Len(requests') = Len(requests) + 1
            /\ SubSeq(requests', 1, Len(requests)) = requests]_vars
    /\ [][(Dispatched /\ requests # <<>> /\ Last(requests) = "newConversation") =>
            /\ Cardinality(Replies(Len(requests))) = 1
            /\ \A i \in Replies(Len(requests)) :
                   outbox[i].kind = "response" => NewCount \in convs]_vars

C33_Witness ==
    /\ Len(requests) >= 3
    /\ requests[1] = "newConversation"
    /\ requests[2] = "addConversationListener"
    /\ requests[3] = "archiveConversation"
    /\ \E i \in Replies(2) : outbox[i].tag = "subscription"
    /\ \E i \in Replies(3) : outbox[i].tag = "archived"

\* C34: after standard input has reached end-of-stream and the processor has
\* ended, the stdout writer writes what is enqueued and ends, so that
\* run_main's join returns, whatever auxiliary agents are still running.
C34_ShutdownCompletes ==
    inboundClosed ~> stdout_writer.state = "ended"
====
